---- MODULE Spec2Model ----
(***************************************************************************)
(* Model of app/video_merger.py: merge_local_with_remote and its helpers,   *)
(* of app/robot/news_voice.py: the listener, the status server, the main    *)
(* loop and play_news, and of app/sadtalker_client.py:                      *)
(* generate_video_from_prompt.                                              *)
(* The file system is a function from the paths that exist to what they     *)
(* hold; every subprocess the code starts is appended to the call's log.    *)
(* Paths and URLs are strings and are taken apart character by character    *)
(* (SubSeq on a string yields a string).                                    *)
(***************************************************************************)
EXTENDS Integers, Sequences, FiniteSets, TLC

VARIABLES
    fs,      \* the file system: existing path |-> what it holds
    env,     \* the tools installed (ffmpeg, ffprobe, yt-dlp), what hosts serve
    call,    \* per caller: the locals of its merge_local_with_remote call
    log,     \* per caller: the invocations its current call has started
    fs0,     \* per caller: the file system when its current call began
    ncalls,  \* calls begun so far
    probe,   \* one inspection on its own: what ffprobe did and what came back
    \* app/robot/news_voice.py
    stop_event,      \* threading.Event shared by the three threads
    state,           \* the dict guarded by state_lock
    command_queue,   \* queue.Queue filled by the listener, drained by main
    now,             \* time.time(), in seconds since the service started
    server,          \* the status-server thread: run_status_server's frame
    listener,        \* the listener thread: listen_for_news's frame
    main,            \* the main thread: main()'s frame
    caller,          \* per calling thread: its play_news frame
    players,         \* the player processes started so far: running or exited
    player_process,  \* the module global: index into players, or NoPlayer
    player_lock,     \* the thread holding player_lock, or NoThread
    requests,        \* the HTTP requests clients have made and what became of them
    \* app/sadtalker_client.py
    gen      \* generate_video_from_prompt's frame

voice_vars ==
    <<stop_event, state, command_queue, now, server, listener, main, caller,
      players, player_process, player_lock, requests>>

vars == <<fs, env, call, log, fs0, ncalls, probe, voice_vars, gen>>

(* ------------------------------ bounds --------------------------------- *)

\* Widths and heights of clips range over 1..MaxDim.
MaxDim == 2

\* Calls of merge_local_with_remote made one after the other by a caller.
MaxCalls == 1

\* Lines of an ffprobe output given to an inspection on its own.
MaxLines == 3

(* ------------------------------ strings -------------------------------- *)

Char(s, i) == SubSeq(s, i, i)

\* Is d a substring of s (Python: d in s)?
Contains(s, d) ==
    \E i \in 1..(Len(s) + 1) :
        /\ i + Len(d) - 1 <= Len(s)
        /\ SubSeq(s, i, i + Len(d) - 1) = d

\* str.lower() on one character.
LowerChar(c) ==
    CASE c = "A" -> "a" [] c = "B" -> "b" [] c = "C" -> "c" [] c = "D" -> "d"
      [] c = "E" -> "e" [] c = "F" -> "f" [] c = "G" -> "g" [] c = "H" -> "h"
      [] c = "I" -> "i" [] c = "J" -> "j" [] c = "K" -> "k" [] c = "L" -> "l"
      [] c = "M" -> "m" [] c = "N" -> "n" [] c = "O" -> "o" [] c = "P" -> "p"
      [] c = "Q" -> "q" [] c = "R" -> "r" [] c = "S" -> "s" [] c = "T" -> "t"
      [] c = "U" -> "u" [] c = "V" -> "v" [] c = "W" -> "w" [] c = "X" -> "x"
      [] c = "Y" -> "y" [] c = "Z" -> "z" [] OTHER -> c

RECURSIVE Lower(_)
Lower(s) == IF s = "" THEN "" ELSE LowerChar(Char(s, 1)) \o Lower(Tail(s))

(* ------------------------------- paths --------------------------------- *)

\* Home directory and working directory of the process.
Home == "/home/u"
Cwd == "/v"

\* pathlib's normalisation of a path string: runs of "/" collapse to one
\* and a trailing "/" is dropped.
RECURSIVE CollapseSlashes(_)
CollapseSlashes(s) ==
    IF Len(s) < 2 THEN s
    ELSE IF Char(s, 1) = "/" /\ Char(s, 2) = "/" THEN CollapseSlashes(Tail(s))
    ELSE Char(s, 1) \o CollapseSlashes(Tail(s))

DropTrailingSlash(s) ==
    IF Len(s) > 1 /\ Char(s, Len(s)) = "/" THEN SubSeq(s, 1, Len(s) - 1) ELSE s

PathOf(s) == DropTrailingSlash(CollapseSlashes(s))

\* Path.expanduser(): a leading "~" component becomes the home directory.
ExpandUser(p) ==
    IF p = "~" THEN Home
    ELSE IF Len(p) >= 2 /\ SubSeq(p, 1, 2) = "~/" THEN Home \o Tail(p)
    ELSE p

\* Path.resolve() (and the lookup of a relative path by exists()): a
\* relative path is taken from the working directory.
Resolve(p) == IF p # "" /\ Char(p, 1) = "/" THEN p ELSE Cwd \o "/" \o p

\* Path.parent of an absolute path.
RECURSIVE Parent(_)
Parent(p) ==
    IF Len(p) <= 1 THEN "/"
    ELSE IF Char(p, Len(p)) = "/" THEN SubSeq(p, 1, Len(p) - 1)
    ELSE Parent(SubSeq(p, 1, Len(p) - 1))

\* Variant: the output directory is taken to exist.
MissingDirsNone(files, d) == {}

\* The directories mkdir(parents=True) has to create for d.
RECURSIVE MissingDirs(_, _)
MissingDirs(files, d) ==
    IF d \in DOMAIN files \/ d = "/" THEN {}
    ELSE {d} \cup MissingDirs(files, Parent(d))

\* Is p inside directory d?
Inside(p, d) == Len(p) > Len(d) + 1 /\ SubSeq(p, 1, Len(d) + 1) = d \o "/"

(* ------------------------- numbers as text ----------------------------- *)

Digits == <<"0", "1", "2", "3", "4", "5", "6", "7", "8", "9">>

\* What ffprobe prints for a number.
RECURSIVE ToStr(_)
ToStr(n) == IF n < 10 THEN Digits[n + 1] ELSE ToStr(n \div 10) \o Digits[(n % 10) + 1]

IsDigit(c) == \E i \in 1..10 : Digits[i] = c

DigitVal(c) == (CHOOSE i \in 1..10 : Digits[i] = c) - 1

\* str.strip() of blanks.
RECURSIVE Strip(_)
Strip(s) ==
    IF s = "" THEN s
    ELSE IF Char(s, 1) = " " THEN Strip(Tail(s))
    ELSE IF Char(s, Len(s)) = " " THEN Strip(SubSeq(s, 1, Len(s) - 1))
    ELSE s

\* int(s) succeeds on a non-empty string of digits (and raises ValueError
\* otherwise).
IsInt(s) == s # "" /\ \A i \in 1..Len(s) : IsDigit(Char(s, i))

RECURSIVE ParseInt(_)
ParseInt(s) ==
    IF s = "" THEN 0
    ELSE 10 * ParseInt(SubSeq(s, 1, Len(s) - 1)) + DigitVal(Char(s, Len(s)))

(* --------------------------- file contents ----------------------------- *)

\* What a path holds: a directory, a decodable clip with its frame size,
\* audio flag and footage ("L" the local clip's, "R" the remote one's, "L+R"
\* one after the other), or something ffprobe cannot make a clip of.
Dir == [kind |-> "dir", w |-> 0, h |-> 0, audio |-> FALSE, src |-> ""]

Clip(w, h, audio, src) == [kind |-> "clip", w |-> w, h |-> h, audio |-> audio, src |-> src]

Garbage(src) == [kind |-> "garbage", w |-> 0, h |-> 0, audio |-> FALSE, src |-> src]

\* A file an interrupted writer left behind.
Partial == [kind |-> "partial", w |-> 0, h |-> 0, audio |-> FALSE, src |-> ""]

Sizes == (1..MaxDim) \X (1..MaxDim)

\* What a file with footage src may hold.
Media(src) ==
    {Clip(d[1], d[2], a, src) : d \in Sizes, a \in BOOLEAN} \cup {Garbage(src)}

\* What a download of a remote reference may deliver: a clip of the
\* smallest or of the widest frame size, with or without audio, or no clip.
RemoteMedia ==
    {Clip(w, 1, a, "R") : w \in {1, MaxDim}, a \in BOOLEAN} \cup {Garbage("R")}

\* What the files that remote references name on this machine may hold.
RefMedia == {Clip(MaxDim, 1, TRUE, "R"), Clip(1, 1, FALSE, "R"), Garbage("R")}

(* ---------------------- exceptions and invocations --------------------- *)

NoExc == [type |-> "", msg |-> ""]

Exc(type, msg) == [type |-> type, msg |-> msg]

\* One entry of a call's log: a subprocess, a download or a copy it started.
Inv(cmd, src, src2, dst, size, audio) ==
    [cmd |-> cmd, src |-> src, src2 |-> src2, dst |-> dst, size |-> size, audio |-> audio]

NoSize == <<0, 0>>

(* ------------------------------ ffprobe -------------------------------- *)

\* What "ffprobe -select_streams v:0 -show_entries stream=width,height"
\* may print, line by line, when it exits with status 0.
FfprobeDimsStdout(c) ==
    IF c.kind = "clip"
    THEN {<<ToStr(c.w), ToStr(c.h)>>,
          <<ToStr(c.w), ToStr(c.h), " ">>,
          <<ToStr(c.w), ToStr(c.h), ToStr(c.w), ToStr(c.h)>>}
    ELSE {<< >>, <<"2", "">>, <<"N/A", "N/A">>}

\* What "ffprobe -select_streams a -show_entries stream=index" may print.
FfprobeAudioStdout(c) ==
    IF c.kind = "clip" /\ c.audio THEN {<<"1">>, <<"1", "2">>} ELSE {<< >>}

NonBlank(line) == Strip(line) # ""

\* lines = [line.strip() for line in stdout.splitlines() if line.strip()]
StrippedLines(stdout) ==
    LET kept == SelectSeq(stdout, NonBlank)
    IN  [i \in 1..Len(kept) |-> Strip(kept[i])]

\* Variant: one except clause for both exceptions of subprocess.run.
ProbeDimsOneExcept(found, exit0, stdout) ==
    LET lines == StrippedLines(stdout)
    IN  IF ~found \/ ~exit0
        THEN [exc |-> Exc("RuntimeError", "ffprobe could not analyze"), size |-> NoSize]
        ELSE IF Len(lines) < 2
        THEN [exc |-> Exc("RuntimeError", "Unable to determine dimensions"), size |-> NoSize]
        ELSE IF ~(IsInt(lines[1]) /\ IsInt(lines[2]))
        THEN [exc |-> Exc("ValueError", "invalid literal for int()"), size |-> NoSize]
        ELSE [exc |-> NoExc, size |-> <<ParseInt(lines[1]), ParseInt(lines[2])>>]

\* Variant: a probe that cannot tell the size says "no size" and goes on.
ProbeDimsFailureIsNoSize(found, exit0, stdout) ==
    LET lines == StrippedLines(stdout)
    IN  IF found /\ exit0 /\ Len(lines) >= 2 /\ IsInt(lines[1]) /\ IsInt(lines[2])
        THEN [exc |-> NoExc, size |-> <<ParseInt(lines[1]), ParseInt(lines[2])>>]
        ELSE [exc |-> NoExc, size |-> NoSize]

\* Variant: any number of lines other than two is refused.
ProbeDimsExactlyTwo(found, exit0, stdout) ==
    LET lines == StrippedLines(stdout)
    IN  IF ~found
        THEN [exc |-> Exc("RuntimeError", "ffprobe is required to inspect video streams."),
              size |-> NoSize]
        ELSE IF ~exit0
        THEN [exc |-> Exc("RuntimeError", "ffprobe could not analyze"), size |-> NoSize]
        ELSE IF Len(lines) # 2
        THEN [exc |-> Exc("RuntimeError", "Unable to determine dimensions"), size |-> NoSize]
        ELSE IF ~(IsInt(lines[1]) /\ IsInt(lines[2]))
        THEN [exc |-> Exc("ValueError", "invalid literal for int()"), size |-> NoSize]
        ELSE [exc |-> NoExc, size |-> <<ParseInt(lines[1]), ParseInt(lines[2])>>]

\* _probe_video_dimensions, given whether ffprobe was found, whether it
\* exited with status 0 and what it printed.
_probe_video_dimensions(found, exit0, stdout) ==
    LET lines == StrippedLines(stdout)
    IN  IF ~found
        THEN [exc |-> Exc("RuntimeError", "ffprobe is required to inspect video streams."),
              size |-> NoSize]
        ELSE IF ~exit0
        THEN [exc |-> Exc("RuntimeError", "ffprobe could not analyze"), size |-> NoSize]
        ELSE IF Len(lines) < 2
        THEN [exc |-> Exc("RuntimeError", "Unable to determine dimensions"), size |-> NoSize]
        ELSE IF ~(IsInt(lines[1]) /\ IsInt(lines[2]))
        THEN [exc |-> Exc("ValueError", "invalid literal for int()"), size |-> NoSize]
        ELSE [exc |-> NoExc, size |-> <<ParseInt(lines[1]), ParseInt(lines[2])>>]

\* Variant: an ffprobe that cannot be run counts as "no audio track".
HasAudioMissingIsSilent(found, exit0, stdout) ==
    IF ~found \/ ~exit0
    THEN [exc |-> NoExc, has |-> FALSE]
    ELSE [exc |-> NoExc, has |-> \E i \in 1..Len(stdout) : NonBlank(stdout[i])]

\* _has_audio_stream: bool(result.stdout.strip()).
_has_audio_stream(found, exit0, stdout) ==
    IF ~found
    THEN [exc |-> Exc("RuntimeError", "ffprobe is required to inspect audio tracks."),
          has |-> FALSE]
    ELSE IF ~exit0
    THEN [exc |-> Exc("RuntimeError", "ffprobe could not analyze"), has |-> FALSE]
    ELSE [exc |-> NoExc, has |-> \E i \in 1..Len(stdout) : NonBlank(stdout[i])]

(* --------------------------- remote resolver --------------------------- *)

STREAMING_DOMAINS ==
    {"youtube.com", "youtu.be", "x.com", "twitter.com",
     "tiktok.com", "vimeo.com", "bitchute.com", "rumble.com"}

\* Variant: the domains are looked for without lower-casing the URL.
IsStreamingUrlCaseSensitive(remote_url) ==
    \E domain \in STREAMING_DOMAINS : Contains(remote_url, domain)

_is_streaming_url(remote_url) ==
    \E lowered \in {Lower(remote_url)} :
        \E domain \in STREAMING_DOMAINS : Contains(lowered, domain)

\* candidate = Path(remote_url).expanduser(), as the file system sees it.
Candidate(remote_url) == Resolve(ExpandUser(PathOf(remote_url)))

\* Variant: the streaming check is made before the local-path check.
StrategyStreamingFirst(files, remote_url) ==
    IF _is_streaming_url(remote_url) THEN "yt_dlp"
    ELSE IF Candidate(remote_url) \in DOMAIN files THEN "copy2"
    ELSE "ffmpeg_fetch"

\* The strategy _prepare_remote_clip takes.
Strategy(files, remote_url) ==
    IF Candidate(remote_url) \in DOMAIN files THEN "copy2"
    ELSE IF _is_streaming_url(remote_url) THEN "yt_dlp"
    ELSE "ffmpeg_fetch"

(* ------------------------------ merge plan ----------------------------- *)

\* Variant: the version probe runs without check=True, so that a non-zero
\* exit is not noticed.
EnsureFfmpegUnchecked(status) ==
    IF status = "missing"
    THEN Exc("RuntimeError", "ffmpeg is required to merge videos; please install it.")
    ELSE NoExc

\* _ensure_ffmpeg_available: the RuntimeError it raises, if any.
_ensure_ffmpeg_available(status) ==
    IF status = "missing"
    THEN Exc("RuntimeError", "ffmpeg is required to merge videos; please install it.")
    ELSE IF status = "broken"
    THEN Exc("RuntimeError", "Unable to run ffmpeg binary.")
    ELSE NoExc

\* Variant: only the widths are compared.
NeedsRescaleWidthOnly(local_size, remote_size) == local_size[1] # remote_size[1]

\* if local_size != remote_size
NeedsRescale(local_size, remote_size) == local_size # remote_size

\* Variant: the remote clip's own size is the target.
ScaleTargetRemote(local_size, remote_size) == remote_size

\* The target_size handed to _scale_video_to_target.
ScaleTarget(local_size, remote_size) == local_size

\* Variant: audio is kept when either clip has some.
IncludeAudioEither(local_has_audio, remote_has_audio) == local_has_audio \/ remote_has_audio

\* The include_audio handed to _concat_with_reencoding.
IncludeAudio(local_has_audio, remote_has_audio) == local_has_audio /\ remote_has_audio

\* Variant: the remote clip is given first.
ConcatInputsReversed(local_path, remote_path) == <<remote_path, local_path>>

\* The two -i inputs of the concatenation, in order.
ConcatInputs(local_path, remote_path) == <<local_path, remote_path>>

\* Variant: a directory made with mkdtemp() and never removed.
TmpCleanupNever(files, d) == files

\* Leaving the TemporaryDirectory context: the directory and all in it go.
TmpCleanup(files, d) ==
    [q \in {q \in DOMAIN files : q # d /\ ~Inside(q, d)} |-> files[q]]

(* ------------------------------- ffmpeg -------------------------------- *)

\* Variant: the rescale writes video only ("-an").
ScaleOutputSilent(c, target_size) == Clip(target_size[1], target_size[2], FALSE, c.src)

\* What _scale_video_to_target leaves at its destination: scale and pad to
\* exactly target_size, video re-encoded, audio copied ("-c:a copy").
ScaleOutput(c, target_size) == Clip(target_size[1], target_size[2], c.audio, c.src)

\* Can the concat filter graph of _concat_with_reencoding run on a and b?
\* Both must decode, share one frame size and, in audio mode, hold audio.
ConcatRuns(a, b, include_audio) ==
    /\ a.kind = "clip" /\ b.kind = "clip"
    /\ a.w = b.w /\ a.h = b.h
    /\ include_audio => (a.audio /\ b.audio)

\* What it writes: the first input's footage, then the second's.
ConcatOutput(a, b, include_audio) == Clip(a.w, a.h, include_audio, a.src \o "+" \o b.src)

(* ------------------------------- inputs -------------------------------- *)

LocalArgs == {"a.mp4"}

RemoteRefs ==
    {"~/b.mp4", "x.com.mp4", "https://YouTu.be/a.mp4",
     "https://cdn.io/a.mp4", "https://cdn.io/x.com/a.mp4", "https://dropbox.com/a.mp4"}

OutputArgs == {"~/out/m.mp4"}

\* Names tempfile.TemporaryDirectory() may pick.
TmpDirs == <<"/tmp/t1", "/tmp/t2">>

\* Extensions under which yt-dlp may store or announce a download.
Exts == {"mp4", "webm"}

\* Files a remote reference of RemoteRefs names when they exist locally.
RefFiles == {"/home/u/b.mp4", "/v/x.com.mp4", "/v/https:/YouTu.be/a.mp4"}

BaseDirs == {"/v", "/home/u", "/tmp", "/v/https:", "/v/https:/YouTu.be"}

\* The machine's tools, and what the hosts of remote references serve.
Envs == [ffmpeg : {"ok", "missing", "broken"}, ffprobe : BOOLEAN, yt_dlp : BOOLEAN,
         served : {RemoteMedia}]

\* f with path q holding c.
Put(f, q, c) == [x \in DOMAIN f \cup {q} |-> IF x = q THEN c ELSE f[x]]

\* f without path q.
Remove(f, q) == [x \in DOMAIN f \ {q} |-> f[x]]

\* The file systems a call may start in.
InitialFiles ==
    LET base == [d \in BaseDirs |-> Dir]
        withLocal == {base} \cup {Put(base, "/v/a.mp4", m) : m \in Media("L")}
        withRefs(f) ==
            {f} \cup {[x \in DOMAIN f \cup RefFiles |-> IF x \in RefFiles THEN m ELSE f[x]]
                      : m \in RefMedia}
    IN  UNION {withRefs(f) : f \in withLocal}

IdleCall ==
    [pc |-> "idle", local_path |-> "", remote_url |-> "", output_path |-> "",
     output_arg |-> "",
     tmpdir |-> "", working_remote |-> "", normalized_remote |-> "",
     local_size |-> NoSize, remote_size |-> NoSize,
     local_has_audio |-> FALSE, remote_has_audio |-> FALSE,
     strategy |-> "", exc |-> NoExc, result |-> ""]

\* No inspection is being looked at on its own.
IdleProbe ==
    [pc |-> "off", found |-> TRUE, exit0 |-> TRUE, stdout |-> << >>,
     exc |-> NoExc, size |-> NoSize, has |-> FALSE]

(* ------------------ news_voice.py: values and idle state --------------- *)

\* Python's None where the code only tests truthiness ("x or 'n/a'").
None == ""

\* A time.time() reading that was never taken.
NoTime == -1

NoPlayer == 0
NoThread == 0

\* state as the module creates it.
InitialState == [last_phrase |-> None, last_heard |-> None, last_played |-> None]

\* A thread that is not in play_news. outcome and stamped describe its
\* latest call: what it did about the player, and whether it wrote
\* state["last_played"].
IdleCaller == [pc |-> "idle", outcome |-> "", stamped |-> FALSE, calls |-> 0]

\* The service is not running.
VoiceOff ==
    /\ stop_event = FALSE
    /\ state = InitialState
    /\ command_queue = << >>
    /\ now = 0
    /\ server = [pc |-> "off", listening |-> FALSE, last_heard_time |-> NoTime,
                 stopped_at |-> NoTime]
    /\ listener = [pc |-> "off", last_heard_time |-> NoTime]
    /\ main = [pc |-> "off"]
    /\ caller = [c \in {1} |-> IdleCaller]
    /\ players = << >>
    /\ player_process = NoPlayer
    /\ player_lock = NoThread
    /\ requests = << >>

(* ------------------- sadtalker_client.py: idle state ------------------- *)

\* No generate_video_from_prompt call is being looked at.
IdleGen == [pc |-> "off"]

Procs == DOMAIN call

Init ==
    /\ fs \in InitialFiles
    /\ env \in Envs
    /\ call = [p \in {1} |-> IdleCall]
    /\ log = [p \in {1} |-> << >>]
    /\ fs0 = [p \in {1} |-> fs]
    /\ ncalls = 0
    /\ probe = IdleProbe
    /\ VoiceOff
    /\ gen = IdleGen

(* ------------------------ merge_local_with_remote ---------------------- *)

Logged(p, entry) == [log EXCEPT ![p] = Append(@, entry)]

\* Variant: the exception is noted and the call stays where it was.
Swallowed(c, e) == [c EXCEPT !.exc = e]

\* Variant: a failed call is started over (a retry wrapper).
Restarted(c, e) == [c EXCEPT !.pc = "start"]

\* No step of merge_local_with_remote or of its helpers is inside a try
\* that goes on: the exception e of a step ends the call c.
Raised(c, e) == [c EXCEPT !.pc = "raised", !.exc = e]

\* An exception leaves the call before the TemporaryDirectory is entered.
RaiseOutside(p, e) ==
    call' = [call EXCEPT ![p] = Raised(@, e)]

\* An exception leaves the call from inside the with block, whose exit
\* removes the temporary directory; files is the file system the failed
\* step left.
RaiseInside(p, e, files) ==
    /\ call' = [call EXCEPT ![p] = Raised(@, e)]
    /\ fs' = TmpCleanup(files, call[p].tmpdir)

\* Variant: what the caller's previous call c worked out is kept (as in
\* module-level variables) and only the arguments are new.
CarriedCall(c, l, r, o) ==
    [c EXCEPT !.pc = "start", !.local_path = l, !.remote_url = r, !.output_path = o,
              !.output_arg = o, !.exc = NoExc, !.result = ""]

\* The locals of a call at its entry: the three arguments and nothing else,
\* whatever the caller's previous call c left.
FreshCall(c, l, r, o) ==
    [IdleCall EXCEPT !.pc = "start", !.local_path = l, !.remote_url = r,
                     !.output_path = o, !.output_arg = o]

\* Caller p enters merge_local_with_remote(l, r, o).
StartCall(p, l, r, o) ==
    /\ call' = [call EXCEPT ![p] = FreshCall(@, l, r, o)]
    /\ log' = [log EXCEPT ![p] = << >>]
    /\ fs0' = [fs0 EXCEPT ![p] = fs]
    /\ ncalls' = ncalls + 1
    /\ UNCHANGED <<fs, env, probe, voice_vars, gen>>

\* A caller calls merge_local_with_remote(local_path, remote_url, output_path).
Begin(p) ==
    /\ call[p].pc \in {"idle", "returned", "raised"}
    /\ ncalls < MaxCalls
    /\ \E l \in LocalArgs, r \in RemoteRefs, o \in OutputArgs : StartCall(p, l, r, o)

\* Variant: the existence of the clip's directory is checked instead.
LocalMissingDirOnly(files, local_path) == Parent(local_path) \notin DOMAIN files

\* if not local_path.exists(): raise FileNotFoundError
LocalMissing(files, local_path) == local_path \notin DOMAIN files

\* local_path = local_path.expanduser().resolve(); the existence check.
CheckLocal(p) ==
    /\ call[p].pc = "start"
    /\ LET local_path == Resolve(ExpandUser(PathOf(call[p].local_path)))
       IN  IF LocalMissing(fs, local_path)
           THEN RaiseOutside(p, Exc("FileNotFoundError", "Local video does not exist"))
           ELSE call' = [call EXCEPT ![p].pc = "guard", ![p].local_path = local_path]
    /\ UNCHANGED <<fs, env, log, fs0, ncalls, probe, voice_vars, gen>>

\* _ensure_ffmpeg_available(): runs "ffmpeg -version".
EnsureFfmpeg(p) ==
    /\ call[p].pc = "guard"
    /\ log' = Logged(p, Inv("ffmpeg_version", "", "", "", NoSize, FALSE))
    /\ LET e == _ensure_ffmpeg_available(env.ffmpeg)
       IN  IF e # NoExc
           THEN RaiseOutside(p, e)
           ELSE call' = [call EXCEPT ![p].pc = "outdir"]
    /\ UNCHANGED <<fs, env, fs0, ncalls, probe, voice_vars, gen>>

\* output_path = output_path.expanduser().resolve()
\* output_path.parent.mkdir(parents=True, exist_ok=True)
PrepareOutput(p) ==
    /\ call[p].pc = "outdir"
    /\ \E output_path \in {Resolve(ExpandUser(PathOf(call[p].output_path)))} :
          \E parent \in {Parent(output_path)} :
             LET made == MissingDirs(fs, parent)
             IN  /\ fs' = [x \in DOMAIN fs \cup made |-> IF x \in made THEN Dir ELSE fs[x]]
                 /\ call' = [call EXCEPT ![p].pc = "tmp", ![p].output_path = output_path]
    /\ UNCHANGED <<env, log, fs0, ncalls, probe, voice_vars, gen>>

\* Variant: one fixed scratch directory, made with exist_ok=True.
SharedTmp(files) == {TmpDirs[1]}

\* The name mkdtemp() comes back with: it makes a directory that did not
\* exist. Which of the free names it takes does not matter to the caller;
\* the first free one stands for it.
FreshTmp(files) ==
    LET free == {i \in 1..Len(TmpDirs) : TmpDirs[i] \notin DOMAIN files}
    IN  IF free = {} THEN {}
        ELSE {TmpDirs[CHOOSE i \in free : \A j \in free : i <= j]}

\* with tempfile.TemporaryDirectory() as tmpdir: a fresh directory.
\* working_remote = Path(tmpdir) / "remote.mp4"
EnterTmp(p) ==
    /\ call[p].pc = "tmp"
    /\ \E d \in FreshTmp(fs) :
          /\ fs' = Put(fs, d, Dir)
          /\ call' = [call EXCEPT ![p].pc = "prepare", ![p].tmpdir = d,
                                  ![p].working_remote = d \o "/remote.mp4"]
    /\ UNCHANGED <<env, log, fs0, ncalls, probe, voice_vars, gen>>

\* Variant: a failed acquisition is attempted again.
AcquisitionRetried(c, e) == c

\* _prepare_remote_clip calls one helper and has no except clause: the
\* helper's exception e is the end of the call c.
AcquisitionFailed(c, e) == Raised(c, e)

\* What a step that failed while writing q may leave: nothing, or a torso.
FailedWrite(files, q) == {files, Put(files, q, Partial)}

\* _prepare_remote_clip, first branch: copy2(candidate, destination).
CopyRemote(p) ==
    /\ call[p].pc = "prepare"
    /\ Strategy(fs, call[p].remote_url) = "copy2"
    /\ LET candidate == Candidate(call[p].remote_url)
           destination == call[p].working_remote
       IN  /\ log' = Logged(p, Inv("copy2", candidate, "", destination, NoSize, FALSE))
           /\ \/ /\ fs' = Put(fs, destination, fs[candidate])
                 /\ call' = [call EXCEPT ![p].pc = "probe_local", ![p].strategy = "copy2"]
              \/ \E files \in FailedWrite(fs, destination) :
                    /\ call' = [call EXCEPT ![p] =
                                   AcquisitionFailed([@ EXCEPT !.strategy = "copy2"],
                                                     Exc("OSError", "copy failed"))]
                    /\ fs' = TmpCleanup(files, call[p].tmpdir)
    /\ UNCHANGED <<env, fs0, ncalls, probe, voice_vars, gen>>

\* Variant: the download is copied onto destination, not moved.
YtdlpFinishCopies(files, remote_url, destination, named) ==
    LET downloaded_path == Parent(destination) \o "/remote." \o named
    IN  IF downloaded_path \notin DOMAIN files
        THEN [exc |-> Exc("RuntimeError", "yt-dlp failed to download"), files |-> files]
        ELSE [exc |-> NoExc, files |-> Put(files, destination, files[downloaded_path])]

\* _download_with_ytdlp after a download that yt-dlp reports as done:
\* prepare_filename names remote.<named>; the file must exist and is moved
\* onto destination.
YtdlpFinish(files, remote_url, destination, named) ==
    LET downloaded_path == Parent(destination) \o "/remote." \o named
    IN  IF downloaded_path \notin DOMAIN files
        THEN [exc |-> Exc("RuntimeError", "yt-dlp failed to download"), files |-> files]
        ELSE [exc |-> NoExc,
              files |-> Put(Remove(files, downloaded_path), destination,
                            files[downloaded_path])]

\* _prepare_remote_clip, second branch: _download_with_ytdlp.
DownloadWithYtdlp(p) ==
    /\ call[p].pc = "prepare"
    /\ Strategy(fs, call[p].remote_url) = "yt_dlp"
    /\ LET url == call[p].remote_url
           destination == call[p].working_remote
           chosen == [call EXCEPT ![p].strategy = "yt_dlp"]
       IN  \/ /\ ~env.yt_dlp
              /\ call' = [chosen EXCEPT ![p] =
                             AcquisitionFailed(@, Exc("RuntimeError",
                                                      "yt-dlp is required for streaming URLs"))]
              /\ fs' = TmpCleanup(fs, call[p].tmpdir)
              /\ UNCHANGED log
           \/ /\ env.yt_dlp
              /\ \/ \E stored \in Exts :
                       \E files \in FailedWrite(fs, Parent(destination) \o "/remote." \o stored) :
                          /\ log' = Logged(p, Inv("yt_dlp", url, "", destination, NoSize, FALSE))
                          /\ call' = [chosen EXCEPT ![p] =
                                         AcquisitionFailed(@, Exc("DownloadError",
                                                                  "yt-dlp could not download"))]
                          /\ fs' = TmpCleanup(files, call[p].tmpdir)
                 \/ \E stored \in Exts, named \in Exts, m \in env.served :
                       LET got == Put(fs, Parent(destination) \o "/remote." \o stored, m)
                           r == YtdlpFinish(got, url, destination, named)
                           downloaded_name == Parent(destination) \o "/remote." \o named
                       IN  /\ log' = Logged(p, Inv("yt_dlp", url, downloaded_name, destination,
                                                   NoSize, FALSE))
                           /\ IF r.exc # NoExc
                              THEN /\ call' = [chosen EXCEPT ![p] = AcquisitionFailed(@, r.exc)]
                                   /\ fs' = TmpCleanup(r.files, call[p].tmpdir)
                              ELSE /\ call' = [chosen EXCEPT ![p].pc = "probe_local"]
                                   /\ fs' = r.files
    /\ UNCHANGED <<env, fs0, ncalls, probe, voice_vars, gen>>

\* _prepare_remote_clip, last branch: _download_remote_clip, an ffmpeg
\* stream copy of the URL into destination.
DownloadRemoteClip(p) ==
    /\ call[p].pc = "prepare"
    /\ Strategy(fs, call[p].remote_url) = "ffmpeg_fetch"
    /\ LET url == call[p].remote_url
           destination == call[p].working_remote
           chosen == [call EXCEPT ![p].strategy = "ffmpeg_fetch"]
       IN  /\ log' = Logged(p, Inv("ffmpeg_fetch", url, "", destination, NoSize, FALSE))
           /\ \/ \E m \in env.served :
                    /\ fs' = Put(fs, destination, m)
                    /\ call' = [chosen EXCEPT ![p].pc = "probe_local"]
              \/ \E files \in FailedWrite(fs, destination) :
                    /\ call' = [chosen EXCEPT ![p] =
                                   AcquisitionFailed(@, Exc("CalledProcessError",
                                                            "ffmpeg -i url -c copy"))]
                    /\ fs' = TmpCleanup(files, call[p].tmpdir)
    /\ UNCHANGED <<env, fs0, ncalls, probe, voice_vars, gen>>

\* local_size = _probe_video_dimensions(local_path)
ProbeLocalDims(p) ==
    /\ call[p].pc = "probe_local"
    /\ log' = Logged(p, Inv("ffprobe_dims", call[p].local_path, "", "", NoSize, FALSE))
    /\ \E exit0 \in BOOLEAN, stdout \in FfprobeDimsStdout(fs[call[p].local_path]) :
          LET r == _probe_video_dimensions(env.ffprobe, exit0, stdout)
          IN  IF r.exc # NoExc
              THEN RaiseInside(p, r.exc, fs)
              ELSE /\ call' = [call EXCEPT ![p].pc = "probe_remote", ![p].local_size = r.size]
                   /\ fs' = fs
    /\ UNCHANGED <<env, fs0, ncalls, probe, voice_vars, gen>>

\* remote_size = _probe_video_dimensions(working_remote)
ProbeRemoteDims(p) ==
    /\ call[p].pc = "probe_remote"
    /\ log' = Logged(p, Inv("ffprobe_dims", call[p].working_remote, "", "", NoSize, FALSE))
    /\ \E exit0 \in BOOLEAN, stdout \in FfprobeDimsStdout(fs[call[p].working_remote]) :
          LET r == _probe_video_dimensions(env.ffprobe, exit0, stdout)
          IN  IF r.exc # NoExc
              THEN RaiseInside(p, r.exc, fs)
              ELSE /\ call' = [call EXCEPT ![p].pc = "reconcile", ![p].remote_size = r.size]
                   /\ fs' = fs
    /\ UNCHANGED <<env, fs0, ncalls, probe, voice_vars, gen>>

\* Variant: the rescale writes onto the clip it reads.
NormalizedRemoteInPlace(tmpdir, working_remote) == working_remote

\* normalized_remote = Path(tmpdir) / "remote_scaled.mp4"
NormalizedRemote(tmpdir, working_remote) == tmpdir \o "/remote_scaled.mp4"

\* if local_size != remote_size: _scale_video_to_target(working_remote,
\* local_size, normalized_remote) else: normalized_remote = working_remote
Reconcile(p) ==
    /\ call[p].pc = "reconcile"
    /\ IF NeedsRescale(call[p].local_size, call[p].remote_size)
       THEN LET normalized_remote == NormalizedRemote(call[p].tmpdir, call[p].working_remote)
                target_size == ScaleTarget(call[p].local_size, call[p].remote_size)
                source == call[p].working_remote
            IN  /\ log' = Logged(p, Inv("ffmpeg_scale", source, "", normalized_remote,
                                        target_size, FALSE))
                /\ \/ /\ fs' = Put(fs, normalized_remote, ScaleOutput(fs[source], target_size))
                      /\ call' = [call EXCEPT ![p].pc = "audio_local",
                                              ![p].normalized_remote = normalized_remote]
                   \/ \E files \in FailedWrite(fs, normalized_remote) :
                         RaiseInside(p, Exc("CalledProcessError", "ffmpeg -vf scale"), files)
       ELSE /\ call' = [call EXCEPT ![p].pc = "audio_local",
                                    ![p].normalized_remote = call[p].working_remote]
            /\ UNCHANGED <<fs, log>>
    /\ UNCHANGED <<env, fs0, ncalls, probe, voice_vars, gen>>

\* local_has_audio = _has_audio_stream(local_path)
ProbeLocalAudio(p) ==
    /\ call[p].pc = "audio_local"
    /\ log' = Logged(p, Inv("ffprobe_audio", call[p].local_path, "", "", NoSize, FALSE))
    /\ \E exit0 \in BOOLEAN, stdout \in FfprobeAudioStdout(fs[call[p].local_path]) :
          LET r == _has_audio_stream(env.ffprobe, exit0, stdout)
          IN  IF r.exc # NoExc
              THEN RaiseInside(p, r.exc, fs)
              ELSE /\ call' = [call EXCEPT ![p].pc = "audio_remote",
                                           ![p].local_has_audio = r.has]
                   /\ fs' = fs
    /\ UNCHANGED <<env, fs0, ncalls, probe, voice_vars, gen>>

\* remote_has_audio = _has_audio_stream(normalized_remote)
ProbeRemoteAudio(p) ==
    /\ call[p].pc = "audio_remote"
    /\ log' = Logged(p, Inv("ffprobe_audio", call[p].normalized_remote, "", "", NoSize, FALSE))
    /\ \E exit0 \in BOOLEAN, stdout \in FfprobeAudioStdout(fs[call[p].normalized_remote]) :
          LET r == _has_audio_stream(env.ffprobe, exit0, stdout)
          IN  IF r.exc # NoExc
              THEN RaiseInside(p, r.exc, fs)
              ELSE /\ call' = [call EXCEPT ![p].pc = "concat",
                                           ![p].remote_has_audio = r.has]
                   /\ fs' = fs
    /\ UNCHANGED <<env, fs0, ncalls, probe, voice_vars, gen>>

\* _concat_with_reencoding(local_path, normalized_remote, output_path,
\* local_has_audio and remote_has_audio); then the with block is left and
\* output_path returned.
Concat(p) ==
    /\ call[p].pc = "concat"
    /\ LET include_audio == IncludeAudio(call[p].local_has_audio, call[p].remote_has_audio)
           inputs == ConcatInputs(call[p].local_path, call[p].normalized_remote)
           output_path == call[p].output_path
       IN  /\ log' = Logged(p, Inv("ffmpeg_concat", inputs[1], inputs[2], output_path,
                                   NoSize, include_audio))
           /\ \/ /\ ConcatRuns(fs[inputs[1]], fs[inputs[2]], include_audio)
                 /\ fs' = TmpCleanup(Put(fs, output_path,
                                         ConcatOutput(fs[inputs[1]], fs[inputs[2]],
                                                      include_audio)),
                                     call[p].tmpdir)
                 /\ call' = [call EXCEPT ![p].pc = "returned", ![p].result = output_path]
              \/ \E files \in FailedWrite(fs, output_path) :
                    RaiseInside(p, Exc("CalledProcessError", "ffmpeg -filter_complex concat"),
                                files)
    /\ UNCHANGED <<env, fs0, ncalls, probe, voice_vars, gen>>

Next ==
    \/ \E p \in Procs : Begin(p)
    \/ \E p \in Procs : CheckLocal(p)
    \/ \E p \in Procs : EnsureFfmpeg(p)
    \/ \E p \in Procs : PrepareOutput(p)
    \/ \E p \in Procs : EnterTmp(p)
    \/ \E p \in Procs : CopyRemote(p)
    \/ \E p \in Procs : DownloadWithYtdlp(p)
    \/ \E p \in Procs : DownloadRemoteClip(p)
    \/ \E p \in Procs : ProbeLocalDims(p)
    \/ \E p \in Procs : ProbeRemoteDims(p)
    \/ \E p \in Procs : Reconcile(p)
    \/ \E p \in Procs : ProbeLocalAudio(p)
    \/ \E p \in Procs : ProbeRemoteAudio(p)
    \/ \E p \in Procs : Concat(p)

Spec == Init /\ [][Next]_vars

(* --------------------- calls whose invocations return ------------------ *)

\* The next step of a call that is under way: the check, external
\* invocation or directory operation it is at returns.
MergeStep ==
    \E p \in Procs :
        \/ CheckLocal(p) \/ EnsureFfmpeg(p) \/ PrepareOutput(p) \/ EnterTmp(p)
        \/ CopyRemote(p) \/ DownloadWithYtdlp(p) \/ DownloadRemoteClip(p)
        \/ ProbeLocalDims(p) \/ ProbeRemoteDims(p) \/ Reconcile(p)
        \/ ProbeLocalAudio(p) \/ ProbeRemoteAudio(p) \/ Concat(p)

\* A machine with any of the tool sets, with or without the local clip;
\* the file "~/b.mp4" names is in place.
InitFair ==
    /\ fs \in {[d \in BaseDirs |-> Dir],
               [x \in BaseDirs \cup {"/v/a.mp4", "/home/u/b.mp4"} |->
                   IF x \in BaseDirs THEN Dir
                   ELSE IF x = "/v/a.mp4" THEN Clip(MaxDim, MaxDim, TRUE, "L")
                   ELSE Clip(1, 1, FALSE, "R")]}
    /\ env \in Envs
    /\ call = [p \in {1} |-> IdleCall]
    /\ log = [p \in {1} |-> << >>]
    /\ fs0 = [p \in {1} |-> fs]
    /\ ncalls = 0
    /\ probe = IdleProbe
    /\ VoiceOff
    /\ gen = IdleGen

\* Every subprocess.run, copy2 and download is a blocking call; under the
\* assumption that each of them returns, a call under way takes its next
\* step. Whether the caller calls at all is left open.
SpecFair == InitFair /\ [][Next]_vars /\ WF_vars(MergeStep)

(* ------------------------- one call after another --------------------- *)

\* A machine with all tools installed, the local clip and one file that a
\* reference names in place; hosts serve a clip of the local clip's size
\* with audio or a smaller one without.
InitSeq ==
    /\ fs = [x \in BaseDirs \cup {"/v/a.mp4", "/home/u/b.mp4"} |->
                IF x \in BaseDirs THEN Dir
                ELSE IF x = "/v/a.mp4" THEN Clip(MaxDim, MaxDim, TRUE, "L")
                ELSE Clip(1, 1, FALSE, "R")]
    /\ env = [ffmpeg |-> "ok", ffprobe |-> TRUE, yt_dlp |-> TRUE,
              served |-> {Clip(MaxDim, MaxDim, TRUE, "R"), Clip(1, 1, FALSE, "R")}]
    /\ call = [p \in {1} |-> IdleCall]
    /\ log = [p \in {1} |-> << >>]
    /\ fs0 = [p \in {1} |-> fs]
    /\ ncalls = 0
    /\ probe = IdleProbe
    /\ VoiceOff
    /\ gen = IdleGen

\* The caller calls merge_local_with_remote once more after its MaxCalls
\* calls have returned or raised.
BeginAgain(p) ==
    /\ call[p].pc \in {"returned", "raised"}
    /\ ncalls = MaxCalls
    /\ \E l \in LocalArgs, r \in RemoteRefs, o \in OutputArgs : StartCall(p, l, r, o)

NextSeq ==
    \/ \E p \in Procs : BeginAgain(p)
    \/ Next

SpecSeq == InitSeq /\ [][NextSeq]_vars

(* --------------------------- concurrent calls -------------------------- *)

\* The remote references of the concurrent callers: a local path, a
\* streaming URL and a direct media URL.
RemoteRefsConc == {"~/b.mp4", "https://YouTu.be/a.mp4", "https://cdn.io/a.mp4"}

\* The output path each of two concurrent callers asks for.
OutputArgsConc == <<"~/out/m.mp4", "~/out/n.mp4">>

\* Two callers (threads or processes) on one machine with all tools
\* installed, the local clip and the files that references name in place.
InitConc ==
    /\ fs = [x \in BaseDirs \cup {"/v/a.mp4", "/home/u/b.mp4"} |->
                IF x \in BaseDirs THEN Dir
                ELSE IF x = "/v/a.mp4" THEN Clip(MaxDim, MaxDim, TRUE, "L")
                ELSE Clip(1, 1, FALSE, "R")]
    /\ env = [ffmpeg |-> "ok", ffprobe |-> TRUE, yt_dlp |-> TRUE,
              served |-> {Clip(1, 1, FALSE, "R")}]
    /\ call = [p \in {1, 2} |-> IdleCall]
    /\ log = [p \in {1, 2} |-> << >>]
    /\ fs0 = [p \in {1, 2} |-> fs]
    /\ ncalls = 0
    /\ probe = IdleProbe
    /\ VoiceOff
    /\ gen = IdleGen

\* Caller p calls merge_local_with_remote with its own output path, at any
\* moment of the other caller's call.
BeginConc(p) ==
    /\ call[p].pc = "idle"
    /\ \E l \in LocalArgs, r \in RemoteRefsConc : StartCall(p, l, r, OutputArgsConc[p])

NextConc ==
    \/ \E p \in Procs : BeginConc(p)
    \/ \E p \in Procs : CheckLocal(p)
    \/ \E p \in Procs : EnsureFfmpeg(p)
    \/ \E p \in Procs : PrepareOutput(p)
    \/ \E p \in Procs : EnterTmp(p)
    \/ \E p \in Procs : CopyRemote(p)
    \/ \E p \in Procs : DownloadWithYtdlp(p)
    \/ \E p \in Procs : DownloadRemoteClip(p)
    \/ \E p \in Procs : ProbeLocalDims(p)
    \/ \E p \in Procs : ProbeRemoteDims(p)
    \/ \E p \in Procs : Reconcile(p)
    \/ \E p \in Procs : ProbeLocalAudio(p)
    \/ \E p \in Procs : ProbeRemoteAudio(p)
    \/ \E p \in Procs : Concat(p)

SpecConc == InitConc /\ [][NextConc]_vars

(* ---------------------- the inspections on their own ------------------- *)

\* Lines ffprobe's stdout is made of: empty, blank-padded, numbers, "N/A".
OutputLines == {"", "1", " 2 ", "10", "N/A"}

\* result.stdout.splitlines() of up to MaxLines lines.
Stdouts == UNION {[1..n -> OutputLines] : n \in 0..MaxLines}

\* One helper is about to run ffprobe on a clip: ffprobe is found or not,
\* exits with status 0 or not, and has printed some lines.
InitProbe ==
    /\ fs = [d \in BaseDirs |-> Dir]
    /\ env = [ffmpeg |-> "ok", ffprobe |-> TRUE, yt_dlp |-> TRUE, served |-> RemoteMedia]
    /\ call = [p \in {1} |-> IdleCall]
    /\ log = [p \in {1} |-> << >>]
    /\ fs0 = [p \in {1} |-> fs]
    /\ ncalls = 0
    /\ \E found \in BOOLEAN, exit0 \in BOOLEAN, stdout \in Stdouts :
          probe = [IdleProbe EXCEPT !.pc = "ready", !.found = found,
                                    !.exit0 = exit0, !.stdout = stdout]
    /\ VoiceOff
    /\ gen = IdleGen

\* _probe_video_dimensions(video_path) runs and returns or raises.
ProbeDims ==
    /\ probe.pc = "ready"
    /\ LET r == _probe_video_dimensions(probe.found, probe.exit0, probe.stdout)
       IN  probe' = [probe EXCEPT !.pc = "dims", !.exc = r.exc, !.size = r.size]
    /\ UNCHANGED <<fs, env, call, log, fs0, ncalls, voice_vars, gen>>

\* _has_audio_stream(video_path) runs and returns or raises.
ProbeAudio ==
    /\ probe.pc = "ready"
    /\ LET r == _has_audio_stream(probe.found, probe.exit0, probe.stdout)
       IN  probe' = [probe EXCEPT !.pc = "audio", !.exc = r.exc, !.has = r.has]
    /\ UNCHANGED <<fs, env, call, log, fs0, ncalls, voice_vars, gen>>

NextProbe ==
    \/ ProbeDims
    \/ ProbeAudio

SpecProbe == InitProbe /\ [][NextProbe]_vars

(* ====================== properties of the merge ======================== *)

Ended(p) == call[p].pc \in {"returned", "raised"}

\* The positions of the call's log that hold an invocation of cmd.
Entries(p, cmd) == {i \in 1..Len(log[p]) : log[p][i].cmd = cmd}

\* The resolved local clip path of the call, before and after CheckLocal.
LocalPathOf(p) == Resolve(ExpandUser(PathOf(call[p].local_path)))

ScaledPath(p) == call[p].tmpdir \o "/remote_scaled.mp4"

\* Paths of the temporary directory d that exist.
TmpPaths(d) == {q \in DOMAIN fs : q = d \/ Inside(q, d)}

\* C1: once a call that created its temporary directory has returned or
\* raised, neither the directory nor any file in it (remote.mp4,
\* remote_scaled.mp4, a download under another extension) exists.
C1_TmpDirRemoved ==
    \A p \in Procs :
        (Ended(p) /\ call[p].tmpdir # "") => TmpPaths(call[p].tmpdir) = {}

\* A call failed after its rescale had written remote_scaled.mp4.
C1_Witness ==
    \E p \in Procs :
        /\ call[p].pc = "raised"
        /\ call[p].normalized_remote = ScaledPath(p)
        /\ call[p].exc.type = "CalledProcessError"
        /\ Entries(p, "ffmpeg_concat") # {}

\* C2: the concatenation runs in audio mode exactly when the local clip and
\* the remote clip both reported an audio stream; in the three other cases
\* it runs video-only and the output carries no audio.
C2_AudioIffBoth ==
    \A p \in Procs :
        /\ \A i \in Entries(p, "ffmpeg_concat") :
              log[p][i].audio <=> (call[p].local_has_audio /\ call[p].remote_has_audio)
        /\ call[p].pc = "returned" =>
              (fs[call[p].result].audio
                  <=> (call[p].local_has_audio /\ call[p].remote_has_audio))

\* A merge of a local clip with audio and a silent remote clip returned.
C2_Witness ==
    \E p \in Procs :
        /\ call[p].pc = "returned"
        /\ call[p].local_has_audio /\ ~call[p].remote_has_audio
        /\ ~fs[call[p].result].audio

\* C3: the concatenation gets the local clip as first input and the
\* (possibly rescaled) remote clip as second, in both modes, and the output
\* of a successful merge holds the local footage followed by the remote one.
C3_LocalFirst ==
    \A p \in Procs :
        /\ \A i \in Entries(p, "ffmpeg_concat") :
              /\ log[p][i].src = call[p].local_path
              /\ log[p][i].src2 = call[p].normalized_remote
        /\ call[p].pc = "returned" => fs[call[p].result].src = "L+R"

\* A merge with a rescaled remote clip returned, in audio mode.
C3_Witness ==
    \E p \in Procs :
        /\ call[p].pc = "returned"
        /\ call[p].normalized_remote = ScaledPath(p)
        /\ fs[call[p].result].audio

\* The call has decided whether to rescale.
Reconciled(p) ==
    \/ call[p].pc \in {"audio_local", "audio_remote", "concat", "returned"}
    \/ Entries(p, "ffmpeg_scale") # {}
    \/ Entries(p, "ffprobe_audio") # {}

\* C4: the rescale runs exactly once when the probed sizes of the local and
\* of the resolved remote clip differ, and not at all when they are equal:
\* then no remote_scaled.mp4 exists and the resolved remote clip itself is
\* the one handed on.
C4_RescaleIffSizesDiffer ==
    \A p \in Procs :
        /\ Cardinality(Entries(p, "ffmpeg_scale")) <= 1
        /\ Reconciled(p) =>
              IF call[p].local_size # call[p].remote_size
              THEN /\ Cardinality(Entries(p, "ffmpeg_scale")) = 1
                   /\ ~Ended(p) => call[p].normalized_remote = ScaledPath(p)
              ELSE /\ Entries(p, "ffmpeg_scale") = {}
                   /\ ~Ended(p) =>
                         /\ call[p].normalized_remote = call[p].working_remote
                         /\ ScaledPath(p) \notin DOMAIN fs

\* A rescale ran for sizes that differ by one in the height alone.
C4_Witness ==
    \E p \in Procs :
        /\ Entries(p, "ffmpeg_scale") # {}
        /\ call[p].local_size[1] = call[p].remote_size[1]
        /\ call[p].local_size[2] = call[p].remote_size[2] + 1

\* C5: every rescale is asked for exactly the local clip's probed size, and
\* the clip it leaves, which is the one handed to the concatenation, has
\* the local clip's frame size.
C5_ScaleToLocalSize ==
    \A p \in Procs :
        /\ \A i \in Entries(p, "ffmpeg_scale") :
              /\ log[p][i].size = call[p].local_size
              /\ log[p][i].src = call[p].working_remote
              /\ log[p][i].dst = ScaledPath(p)
        /\ call[p].pc \in {"audio_local", "audio_remote", "concat"} =>
              LET c == fs[call[p].normalized_remote]
              IN  <<c.w, c.h>> = call[p].local_size

\* A rescale to a size that is not the remote clip's has succeeded.
C5_Witness ==
    \E p \in Procs :
        /\ call[p].pc = "concat"
        /\ Entries(p, "ffmpeg_scale") # {}
        /\ call[p].local_size = <<MaxDim, MaxDim>>
        /\ call[p].remote_size = <<1, 1>>

\* The call has chosen how to acquire the remote clip.
Routed(p) == call[p].strategy # ""

\* Did the reference name an existing path when the call began?
NamedLocalFile(p) == Candidate(call[p].remote_url) \in DOMAIN fs0[p]

\* The position after the first "://" of url, or 0.
AfterScheme(url) ==
    IF Contains(url, "://")
    THEN 3 + CHOOSE i \in 1..Len(url) :
                 /\ i + 2 <= Len(url)
                 /\ SubSeq(url, i, i + 2) = "://"
                 /\ \A j \in 1..(i - 1) : SubSeq(url, j, j + 2) # "://"
    ELSE 0

\* The host of a URL: what stands between "://" and the next "/", "?" or
\* "#"; the empty string when the reference has no scheme.
RECURSIVE UpToDelimiter(_)
UpToDelimiter(s) ==
    IF s = "" \/ Char(s, 1) \in {"/", "?", "#"} THEN ""
    ELSE Char(s, 1) \o UpToDelimiter(Tail(s))

HostOf(url) ==
    IF AfterScheme(url) = 0 THEN ""
    ELSE UpToDelimiter(SubSeq(url, AfterScheme(url), Len(url)))

EndsWith(s, t) == Len(t) <= Len(s) /\ SubSeq(s, Len(s) - Len(t) + 1, Len(s)) = t

\* The reference's host is a listed domain or a subdomain of one, in any
\* letter case.
OnStreamingHost(url) ==
    LET host == Lower(HostOf(url))
    IN  \E domain \in STREAMING_DOMAINS : host = domain \/ EndsWith(host, "." \o domain)

\* C6: a reference that names an existing local path is copied to the
\* destination, and neither the downloader nor the ffmpeg stream copy is
\* started, also when the reference contains a streaming domain.
C6_LocalPathIsCopied ==
    \A p \in Procs :
        (Routed(p) /\ NamedLocalFile(p)) =>
            /\ call[p].strategy = "copy2"
            /\ Entries(p, "yt_dlp") = {} /\ Entries(p, "ffmpeg_fetch") = {}
            /\ \E i \in Entries(p, "copy2") :
                  /\ log[p][i].src = Candidate(call[p].remote_url)
                  /\ log[p][i].dst = call[p].working_remote
            /\ call[p].pc = "probe_local" =>
                  fs[call[p].working_remote] = fs[Candidate(call[p].remote_url)]

\* An existing local file whose name contains a streaming domain was copied.
C6_Witness ==
    \E p \in Procs :
        /\ call[p].pc = "probe_local"
        /\ call[p].strategy = "copy2"
        /\ _is_streaming_url(call[p].remote_url)

\* C7 as stated: a reference on a streaming-platform host always goes
\* through the downloader.
C7_Original ==
    \A p \in Procs :
        (Routed(p) /\ OnStreamingHost(call[p].remote_url)) => call[p].strategy = "yt_dlp"

\* C7, amended: a reference on a streaming-platform host never goes through
\* the ffmpeg stream copy, whatever its letter case and path; it goes
\* through the downloader unless it names an existing local path, which is
\* copied.
C7_StreamingHostNeverStreamCopied ==
    \A p \in Procs :
        (Routed(p) /\ OnStreamingHost(call[p].remote_url)) =>
            /\ call[p].strategy # "ffmpeg_fetch"
            /\ Entries(p, "ffmpeg_fetch") = {}
            /\ ~NamedLocalFile(p) => call[p].strategy = "yt_dlp"

\* A URL with a mixed-case streaming host and a direct-media path went
\* through the downloader.
C7_Witness ==
    \E p \in Procs :
        /\ call[p].strategy = "yt_dlp"
        /\ Entries(p, "yt_dlp") # {}
        /\ OnStreamingHost(call[p].remote_url)
        /\ call[p].remote_url # Lower(call[p].remote_url)
        /\ EndsWith(call[p].remote_url, ".mp4")

\* C8: the downloader is chosen only for a reference whose host is on the
\* streaming-platform list; every other reference that is no existing local
\* path is fetched by the ffmpeg stream copy.
C8_DownloaderOnlyForListedHost ==
    \A p \in Procs :
        (Routed(p) /\ ~NamedLocalFile(p) /\ ~OnStreamingHost(call[p].remote_url)) =>
            call[p].strategy = "ffmpeg_fetch"

\* C9: a call whose local clip does not exist raises FileNotFoundError with
\* nothing started and the file system as it was: no ffmpeg version probe,
\* no output directory, no temporary directory, no download.
C9_LocalMissingNoEffect ==
    \A p \in Procs :
        (call[p].pc \notin {"idle", "start"} /\ LocalPathOf(p) \notin DOMAIN fs0[p]) =>
            /\ call[p].pc = "raised"
            /\ call[p].exc.type = "FileNotFoundError"
            /\ log[p] = << >>
            /\ call[p].tmpdir = ""
            /\ fs = fs0[p]

\* A call without its local clip has failed on a machine without ffmpeg.
C9_Witness ==
    \E p \in Procs :
        /\ call[p].pc = "raised"
        /\ call[p].exc.type = "FileNotFoundError"
        /\ env.ffmpeg = "missing"

\* C10: a call whose local clip exists while ffmpeg is not found or its
\* version probe exits non-zero raises RuntimeError with only that probe
\* started: no temporary directory or file, no acquisition, probe or encode.
C10_NoFfmpegNoWork ==
    \A p \in Procs :
        (/\ call[p].pc \notin {"idle", "start", "guard"}
         /\ LocalPathOf(p) \in DOMAIN fs0[p]
         /\ env.ffmpeg # "ok") =>
            /\ call[p].pc = "raised"
            /\ call[p].exc.type = "RuntimeError"
            /\ Len(log[p]) = 1 /\ log[p][1].cmd = "ffmpeg_version"
            /\ call[p].tmpdir = ""
            /\ \A i \in DOMAIN TmpDirs : TmpPaths(TmpDirs[i]) = {}
            /\ fs = fs0[p]

\* A call has failed because the ffmpeg version probe exited non-zero.
C10_Witness ==
    \E p \in Procs :
        /\ call[p].pc = "raised"
        /\ call[p].exc = Exc("RuntimeError", "Unable to run ffmpeg binary.")
        /\ env.ffmpeg = "broken"

(* -------------------- failures: C11, C12, C13, C15 --------------------- *)

\* The commands that acquire the remote clip.
AcquisitionCmds == {"copy2", "yt_dlp", "ffmpeg_fetch"}

\* The place of a logged command in merge_local_with_remote's body.
StepRank(cmd) ==
    CASE cmd = "ffmpeg_version" -> 1
      [] cmd \in AcquisitionCmds -> 2
      [] cmd = "ffprobe_dims" -> 3
      [] cmd = "ffmpeg_scale" -> 4
      [] cmd = "ffprobe_audio" -> 5
      [] cmd = "ffmpeg_concat" -> 6

\* The step a call was at when it raised: the last command it ran, or, with
\* nothing run after the ffmpeg guard, the import of the downloader once
\* that strategy was chosen.
StageOf(p) ==
    LET n == Len(log[p])
    IN  IF n = 0 THEN "local_check"
        ELSE CASE log[p][n].cmd = "ffmpeg_version" ->
                      IF call[p].strategy # "" THEN "acquisition" ELSE "toolchain"
               [] log[p][n].cmd \in AcquisitionCmds -> "acquisition"
               [] log[p][n].cmd = "ffprobe_dims" -> "dims_probe"
               [] log[p][n].cmd = "ffmpeg_scale" -> "rescale"
               [] log[p][n].cmd = "ffprobe_audio" -> "audio_probe"
               [] log[p][n].cmd = "ffmpeg_concat" -> "concat"

\* A call holds an exception exactly when it has ended in failure, and then
\* it has no result; the steps it ran are in the order of the function body.
FailedMeansEnded ==
    \A p \in Procs :
        /\ (call[p].exc # NoExc) <=> (call[p].pc = "raised")
        /\ (call[p].result # "") <=> (call[p].pc = "returned")
        /\ \A i, j \in 1..Len(log[p]) :
              i < j => StepRank(log[p][i].cmd) <= StepRank(log[p][j].cmd)

\* From a failed call the only step is the caller's next call: the failed
\* call runs nothing more and its outcome stays as it is.
NothingAfterFailure ==
    \A p \in Procs :
        call[p].pc = "raised" =>
            \/ call'[p] = call[p] /\ log'[p] = log[p]
            \/ call'[p].pc = "start" /\ log'[p] = << >>

\* C11: every step fails closed. A step that fails (the local check, the
\* ffmpeg guard, the acquisition, a dimension probe, the rescale, an audio
\* probe, the concatenation) ends the call with its exception and without
\* a result, and the call runs no step after it.
C11_FailClosed == [] FailedMeansEnded /\ [][NothingAfterFailure]_vars

\* A call failed in the middle of the pipeline, at the rescale.
C11_Witness ==
    \E p \in Procs :
        /\ call[p].pc = "raised"
        /\ StageOf(p) = "rescale"
        /\ call[p].exc.type = "CalledProcessError"

\* The caller's output path as the call resolves it.
OutputPathOf(p) == Resolve(ExpandUser(PathOf(call[p].output_arg)))

\* C12: after a call that ended in failure, whatever the step that failed
\* (a concatenation that exits non-zero after it began to write included),
\* the caller's output path holds what it held when the call began: no
\* file was created there and none was overwritten.
C12_NoPartialOutput ==
    \A p \in Procs :
        call[p].pc = "raised" =>
            /\ (OutputPathOf(p) \in DOMAIN fs) <=> (OutputPathOf(p) \in DOMAIN fs0[p])
            /\ OutputPathOf(p) \in DOMAIN fs => fs[OutputPathOf(p)] = fs0[p][OutputPathOf(p)]

\* The positions of the call's log that hold an acquisition of the remote clip.
Acquisitions(p) == {i \in 1..Len(log[p]) : log[p][i].cmd \in AcquisitionCmds}

\* C13: the acquisition is single-strategy. A call that reaches it selects
\* one of copy2, the downloader and the ffmpeg stream copy and attempts it
\* once: the log never holds two acquisitions, nor one of a strategy other
\* than the selected; a call goes on to the probes only with its one
\* acquisition done, and a failed acquisition ends the call with nothing
\* else tried.
C13_SingleStrategy ==
    \A p \in Procs :
        /\ Cardinality(Acquisitions(p)) <= 1
        /\ \A i \in Acquisitions(p) : log[p][i].cmd = call[p].strategy
        /\ Routed(p) => call[p].strategy \in AcquisitionCmds
        /\ call[p].pc \notin {"idle", "start", "guard", "outdir", "tmp", "prepare", "raised"}
              => Cardinality(Acquisitions(p)) = 1
        /\ (Routed(p) /\ call[p].pc = "raised" /\ StageOf(p) = "acquisition") =>
              /\ \A i \in 1..Len(log[p]) : StepRank(log[p][i].cmd) <= 2
              /\ call[p].result = ""

\* The downloader was selected and failed: the call ended with that one
\* attempt and without a stream copy.
C13_Witness ==
    \E p \in Procs :
        /\ call[p].pc = "raised"
        /\ call[p].strategy = "yt_dlp"
        /\ call[p].exc.type = "DownloadError"
        /\ Cardinality(Entries(p, "yt_dlp")) = 1
        /\ Entries(p, "ffmpeg_fetch") = {}

(* ------------------------ inspections: C14, C16 ------------------------ *)

\* The lines of the inspected output that are not blank, in order.
NonEmptyLines == SelectSeq(probe.stdout, NonBlank)

\* The dimension probe ran ffprobe to a zero exit status.
DimsProbeRead == probe.pc = "dims" /\ probe.found /\ probe.exit0

\* C14, as claimed: the dimension probe returns a size only when ffprobe
\* printed exactly two non-empty lines; with none, one, three or more, or
\* with lines that are not numbers, it fails.
C14_Original ==
    (probe.pc = "dims" /\ probe.exc = NoExc) =>
        /\ Len(NonEmptyLines) = 2
        /\ IsInt(Strip(NonEmptyLines[1])) /\ IsInt(Strip(NonEmptyLines[2]))

\* C14: the dimension probe returns a size exactly when ffprobe printed at
\* least two non-empty lines of which the first two are numbers, and the
\* size is those two numbers; lines after the second are not looked at.
\* With fewer than two non-empty lines it raises RuntimeError, with a first
\* or second line that is not a number ValueError.
C14_AtLeastTwoLines ==
    DimsProbeRead =>
        LET n == Len(NonEmptyLines)
            numeric == /\ n >= 2
                       /\ IsInt(Strip(NonEmptyLines[1]))
                       /\ IsInt(Strip(NonEmptyLines[2]))
        IN  /\ (probe.exc = NoExc) <=> numeric
            /\ numeric => probe.size = <<ParseInt(Strip(NonEmptyLines[1])),
                                         ParseInt(Strip(NonEmptyLines[2]))>>
            /\ n < 2 => probe.exc.type = "RuntimeError"
            /\ (n >= 2 /\ ~numeric) => probe.exc.type = "ValueError"
            /\ probe.exc # NoExc => probe.size = NoSize

\* The probe returned a size from an output of three non-empty lines.
C14_Witness ==
    /\ DimsProbeRead
    /\ Len(NonEmptyLines) = 3
    /\ probe.exc = NoExc
    /\ probe.size = <<10, 2>>

(* ---------------------------- kinds: C15 ------------------------------- *)

Kinds == {"LocalMissing", "ToolchainMissing", "DownloadFailed", "ProbeFailed",
          "EncodeFailed"}

\* The kind of failure that the failure of a step is.
KindOfStage(stage) ==
    CASE stage = "local_check" -> "LocalMissing"
      [] stage = "toolchain" -> "ToolchainMissing"
      [] stage = "acquisition" -> "DownloadFailed"
      [] stage \in {"dims_probe", "audio_probe"} -> "ProbeFailed"
      [] stage \in {"rescale", "concat"} -> "EncodeFailed"

\* The exception types the steps of a kind raise: what the caller is given
\* to tell the failure by.
ReportedAs(kind) ==
    CASE kind = "LocalMissing" -> {"FileNotFoundError"}
      [] kind = "ToolchainMissing" -> {"RuntimeError"}
      [] kind = "DownloadFailed" -> {"OSError", "RuntimeError", "DownloadError",
                                     "CalledProcessError"}
      [] kind = "ProbeFailed" -> {"RuntimeError", "ValueError"}
      [] kind = "EncodeFailed" -> {"CalledProcessError"}

\* Every failed call holds an exception of a type its step's kind raises.
ReportedAsTyped ==
    \A p \in Procs :
        call[p].pc = "raised" => call[p].exc.type \in ReportedAs(KindOfStage(StageOf(p)))

\* C15: what a failed call reports identifies the kind of its failed step
\* (LocalMissing, ToolchainMissing, DownloadFailed for each of the three
\* strategies, ProbeFailed, EncodeFailed for the rescale and the
\* concatenation): it is reported as that kind and as no other, so that
\* failures of steps of different kinds are never reported alike.
C15_KindIdentifiesStage ==
    \A p \in Procs :
        call[p].pc = "raised" =>
            /\ call[p].exc.type \in ReportedAs(KindOfStage(StageOf(p)))
            /\ \A k \in Kinds \ {KindOfStage(StageOf(p))} :
                  call[p].exc.type \notin ReportedAs(k)

\* One of the two inspections has run.
ProbeRan == probe.pc \in {"dims", "audio"}

\* C16: for the dimension and for the audio inspection alike, an ffprobe
\* that is not installed is reported by a failure of its own ("ffprobe is
\* required ..."), different from the failure reported when ffprobe ran and
\* could not analyze the clip ("ffprobe could not analyze ..."); in both
\* cases the inspection raises and returns no size and no audio flag.
C16_MissingIsNotUnreadable ==
    ProbeRan =>
        /\ ~probe.found =>
              /\ probe.exc.type = "RuntimeError"
              /\ Contains(probe.exc.msg, "ffprobe is required")
        /\ (probe.found /\ ~probe.exit0) =>
              /\ probe.exc.type = "RuntimeError"
              /\ Contains(probe.exc.msg, "ffprobe could not analyze")
              /\ ~Contains(probe.exc.msg, "ffprobe is required")
        /\ (~probe.found \/ ~probe.exit0) =>
              /\ probe.exc # NoExc
              /\ probe.size = NoSize
              /\ ~probe.has

\* The audio inspection ran without ffprobe installed.
C16_Witness ==
    /\ probe.pc = "audio"
    /\ ~probe.found
    /\ probe.exc = Exc("RuntimeError", "ffprobe is required to inspect audio tracks.")

(* -------------------------- concurrency: C17 --------------------------- *)

\* The call is inside its with block: it has a temporary directory.
InBlock(p) == call[p].tmpdir # "" /\ ~Ended(p)

\* The files below directory d, each with what it holds.
FilesBelow(files, d) == [q \in {x \in DOMAIN files : x = d \/ Inside(x, d)} |-> files[q]]

\* The paths an invocation names.
PathsOf(entry) == {entry.src, entry.src2, entry.dst}

\* Calls that run at the same time have different temporary directories;
\* the working files a call names below /tmp are below its own directory;
\* the directory and the working files of a running call exist.
OwnWorkingSet ==
    \A p \in Procs :
        /\ \A q \in Procs \ {p} :
              (InBlock(p) /\ InBlock(q)) =>
                  /\ call[p].tmpdir # call[q].tmpdir
                  /\ OutputPathOf(p) # OutputPathOf(q)
        /\ \A i \in 1..Len(log[p]) : \A x \in PathsOf(log[p][i]) :
              Inside(x, "/tmp") => Inside(x, call[p].tmpdir)
        /\ InBlock(p) =>
              /\ call[p].tmpdir \in DOMAIN fs
              /\ call[p].pc # "prepare" => call[p].working_remote \in DOMAIN fs
              /\ call[p].normalized_remote # "" => call[p].normalized_remote \in DOMAIN fs

\* A step leaves alone what is below the temporary directory of a running
\* call other than the one that takes the step, and what the other call's
\* output path holds.
OthersUntouched ==
    \A q \in Procs :
        (InBlock(q) /\ call'[q] = call[q]) =>
            /\ FilesBelow(fs', call[q].tmpdir) = FilesBelow(fs, call[q].tmpdir)
            /\ FilesBelow(fs', OutputPathOf(q)) = FilesBelow(fs, OutputPathOf(q))

\* C17: in every interleaving of two merge calls given different output
\* paths, each call has a temporary directory of its own; no call reads,
\* writes, renames or removes a file of the other's working set; the
\* cleanup of one call removes nothing the other still uses.
C17_Isolated == [] OwnWorkingSet /\ [][OthersUntouched]_vars

\* One call has ended and cleaned up while the other, which had entered
\* its temporary directory before that, is at its concatenation.
C17_Witness ==
    \E p \in Procs : \E q \in Procs \ {p} :
        /\ Ended(p) /\ call[p].tmpdir # ""
        /\ call[q].pc = "concat"
        /\ call[q].tmpdir # call[p].tmpdir
        /\ call[q].normalized_remote = ScaledPath(q)

(* ----------------------------- success: C18 ---------------------------- *)

\* C18: a call that returns returns the caller's output path, expanded and
\* resolved; it does so right after a concatenation that wrote to exactly
\* that path, which holds the merged clip; and the directory of that path
\* exists then, whether or not it existed before the call.
C18_ReturnsWrittenOutput ==
    \A p \in Procs :
        call[p].pc = "returned" =>
            /\ call[p].result = OutputPathOf(p)
            /\ Len(log[p]) > 0
            /\ log[p][Len(log[p])].cmd = "ffmpeg_concat"
            /\ log[p][Len(log[p])].dst = call[p].result
            /\ Cardinality(Entries(p, "ffmpeg_concat")) = 1
            /\ call[p].result \in DOMAIN fs
            /\ fs[call[p].result].kind = "clip"
            /\ Parent(call[p].result) \in DOMAIN fs
            /\ fs[Parent(call[p].result)] = Dir

\* A call given "~/out/m.mp4" returned "/home/u/out/m.mp4", the directory
\* /home/u/out not having existed when it began.
C18_Witness ==
    \E p \in Procs :
        /\ call[p].pc = "returned"
        /\ call[p].output_arg = "~/out/m.mp4"
        /\ call[p].result = "/home/u/out/m.mp4"
        /\ Parent(call[p].result) \notin DOMAIN fs0[p]

(* ------------------------ independence: C19 ---------------------------- *)

\* What the call's own run has established so far, by its position.
PastPrepare(p) ==
    call[p].pc \in {"probe_local", "probe_remote", "reconcile", "audio_local",
                    "audio_remote", "concat", "returned"}

\* C19: what a call decides is a function of its own arguments and of what
\* the file system and the tools report during it, also when the caller
\* has made other calls before. The strategy is the one its reference gets
\* on the file system it met; the rescale runs exactly when the two sizes
\* it probed differ, to the local size it probed; the audio mode is the
\* conjunction of the two flags it probed. At its entry the call holds
\* nothing but its arguments, and no temporary directory of an earlier call
\* is left for it to find.
C19_OwnInputsDecide ==
    \A p \in Procs :
        /\ call[p].pc = "start" =>
              /\ call[p] = FreshCall(call[p], call[p].local_path, call[p].remote_url,
                                     call[p].output_arg)
              /\ log[p] = << >>
              /\ \A i \in DOMAIN TmpDirs : TmpPaths(TmpDirs[i]) = {}
        /\ ~PastPrepare(p) /\ ~Ended(p) => call[p].strategy = ""
        /\ Routed(p) => call[p].strategy = Strategy(fs0[p], call[p].remote_url)
        /\ Reconciled(p) =>
              /\ (Entries(p, "ffmpeg_scale") # {}) <=> (call[p].local_size # call[p].remote_size)
              /\ \A i \in Entries(p, "ffmpeg_scale") : log[p][i].size = call[p].local_size
        /\ \A i \in Entries(p, "ffmpeg_concat") :
              log[p][i].audio = (call[p].local_has_audio /\ call[p].remote_has_audio)

\* After a call that copied a small silent clip, rescaled it and returned a
\* merge without audio, the caller's next call downloaded a clip of the
\* local size with audio and returned a merge with audio and no rescale.
C19_Witness ==
    \E p \in Procs :
        /\ ncalls = MaxCalls + 1
        /\ call[p].pc = "returned"
        /\ OutputPathOf(p) \in DOMAIN fs0[p]
        /\ ~fs0[p][OutputPathOf(p)].audio
        /\ call[p].strategy = "yt_dlp"
        /\ Entries(p, "ffmpeg_scale") = {}
        /\ fs[call[p].result].audio

(* ------------------------- order of steps: C23 ------------------------- *)

\* The positions of the call's log before position i that hold cmd.
Before(p, i, cmd) == {j \in Entries(p, cmd) : j < i}

TimesInBody(rank) == IF rank \in {3, 5} THEN 2 ELSE 1

\* The call has started no command more often than the body names it.
BoundedInvocations ==
    \A p \in Procs : \A rank \in 1..6 :
        Cardinality({i \in 1..Len(log[p]) : StepRank(log[p][i].cmd) = rank})
            <= TimesInBody(rank)

\* C24: when every external invocation of a merge call returns, the call
\* ends, returning its output path or raising; it never starts more
\* invocations than its body names (one version probe, one acquisition, two
\* dimension probes, one rescale, two audio probes, one concatenation), and
\* at its end its temporary directory is gone.
C24_Terminates ==
    /\ [] BoundedInvocations
    /\ [] (\A p \in Procs :
              (Ended(p) /\ call[p].tmpdir # "") => TmpPaths(call[p].tmpdir) = {})
    /\ \A p \in {1} : (call[p].pc = "start") ~> Ended(p)

\* A call has ended after all eight invocations.
C24_Witness ==
    \E p \in Procs :
        /\ call[p].pc = "returned"
        /\ Len(log[p]) = 8
        /\ call[p].tmpdir \notin DOMAIN fs

(* --------------------------- audio mode: C25 --------------------------- *)

\* C25: the audio inspection of the remote clip is made on the file that
\* the concatenation is given as its second input (remote_scaled.mp4 after
\* a rescale, remote.mp4 otherwise); the rescale keeps the audio track, so
\* the flag found equals the audio presence of the resolved remote clip,
\* and the audio mode of the concatenation is "local has audio and the
\* resolved remote clip has audio" with and without a rescale.
C25_RescaleKeepsAudioMode ==
    \A p \in Procs :
        /\ call[p].pc = "concat" =>
              /\ \E i \in Entries(p, "ffprobe_audio") : log[p][i].src = call[p].normalized_remote
              /\ call[p].remote_has_audio = fs[call[p].working_remote].audio
              /\ call[p].local_has_audio = fs[call[p].local_path].audio
              /\ fs[call[p].normalized_remote].audio = fs[call[p].working_remote].audio
        /\ \A i \in Entries(p, "ffmpeg_concat") :
              /\ log[p][i].src2 = call[p].normalized_remote
              /\ \E j \in Before(p, i, "ffprobe_audio") : log[p][j].src = log[p][i].src2
              /\ log[p][i].audio = (call[p].local_has_audio /\ call[p].remote_has_audio)

\* Both clips have audio and the remote one was rescaled: the call is at
\* its concatenation with the flag of the rescaled clip set.
C25_Witness ==
    \E p \in Procs :
        /\ call[p].pc = "concat"
        /\ call[p].normalized_remote = ScaledPath(p)
        /\ call[p].local_has_audio /\ call[p].remote_has_audio
        /\ fs[call[p].working_remote].audio

(* ------------------------ missing ffprobe: C26 ------------------------- *)

\* ffmpeg runs, ffprobe is not installed, and the local clip of the call
\* existed when it began.
OnlyFfprobeMissing(p) ==
    /\ env.ffmpeg = "ok" /\ ~env.ffprobe
    /\ LocalPathOf(p) \in DOMAIN fs0[p]

\* C26: the guard looks for ffmpeg only. With ffmpeg in place and ffprobe
\* missing a call passes the guard and acquires the remote clip; it never
\* returns; unless the acquisition itself fails, it raises RuntimeError
\* "ffprobe is required to inspect video streams." from the dimension probe
\* of the local clip, its first inspection, with no rescale and no
\* concatenation started, and its temporary directory, remote.mp4 included,
\* is removed.
C26_FailsAtFirstProbe ==
    \A p \in Procs :
        OnlyFfprobeMissing(p) =>
            /\ call[p].pc # "returned"
            /\ Cardinality(Entries(p, "ffprobe_dims")) <= 1
            /\ Entries(p, "ffprobe_audio") = {}
            /\ Entries(p, "ffmpeg_scale") = {} /\ Entries(p, "ffmpeg_concat") = {}
            /\ call[p].pc = "raised" =>
                  /\ StageOf(p) \in {"acquisition", "dims_probe"}
                  /\ StageOf(p) = "dims_probe" =>
                        /\ call[p].exc = Exc("RuntimeError",
                                             "ffprobe is required to inspect video streams.")
                        /\ \A i \in Entries(p, "ffprobe_dims") :
                              /\ log[p][i].src = call[p].local_path
                              /\ Cardinality(Acquisitions(p)) = 1
                              /\ \A j \in Acquisitions(p) : j < i
                        /\ TmpPaths(call[p].tmpdir) = {}
                        /\ call[p].working_remote \notin DOMAIN fs

\* A call without ffprobe fetched its remote clip by stream copy and then
\* failed in the dimension probe of the local clip.
C26_Witness ==
    \E p \in Procs :
        /\ OnlyFfprobeMissing(p)
        /\ call[p].pc = "raised"
        /\ StageOf(p) = "dims_probe"
        /\ call[p].strategy = "ffmpeg_fetch"
        /\ call[p].working_remote # ""

(* --------------------------- downloader: C27 --------------------------- *)

\* The call is between the return of _prepare_remote_clip and the rescale.
JustAcquired(p) == call[p].pc \in {"probe_local", "probe_remote", "reconcile"}

\* C27: when _download_with_ytdlp has returned, the downloaded clip is at
\* destination, remote.mp4 in the call's temporary directory, under
\* whichever extension yt-dlp stored it, and the directory holds no other
\* file: no copy is left under the extension of the download. When yt-dlp
\* reports a download and the file it names does not exist, the call raises
\* RuntimeError without having probed anything.
C27_DownloadAtDestination ==
    \A p \in Procs :
        call[p].strategy = "yt_dlp" =>
            /\ JustAcquired(p) =>
                  /\ call[p].working_remote = call[p].tmpdir \o "/remote.mp4"
                  /\ call[p].working_remote \in DOMAIN fs
                  /\ fs[call[p].working_remote] \in env.served
                  /\ TmpPaths(call[p].tmpdir) = {call[p].tmpdir, call[p].working_remote}
            /\ (call[p].pc = "raised"
                  /\ call[p].exc = Exc("RuntimeError", "yt-dlp failed to download")) =>
                  /\ \A i \in Entries(p, "yt_dlp") : log[p][i].src2 \notin DOMAIN fs
                  /\ Entries(p, "ffprobe_dims") = {} /\ Entries(p, "ffprobe_audio") = {}
                  /\ Entries(p, "ffmpeg_scale") = {} /\ Entries(p, "ffmpeg_concat") = {}

\* yt-dlp stored the clip as remote.webm and the function has returned.
C27_Witness ==
    \E p \in Procs :
        /\ call[p].strategy = "yt_dlp"
        /\ call[p].pc = "probe_local"
        /\ \E i \in Entries(p, "yt_dlp") :
              log[p][i].src2 = call[p].tmpdir \o "/remote.webm"
        /\ call[p].working_remote \in DOMAIN fs

(* ----------------------------- inputs: C28 ----------------------------- *)

\* The paths whose presence or content differs from when p's call began.
Changed(p) ==
    {q \in DOMAIN fs \cup DOMAIN fs0[p] :
        \/ q \notin DOMAIN fs
        \/ q \notin DOMAIN fs0[p]
        \/ fs[q] # fs0[p][q]}

\* The output path is neither the local clip nor a local file that
\* remote_url names.
OutputApart(p) ==
    /\ OutputPathOf(p) # LocalPathOf(p)
    /\ NamedLocalFile(p) => OutputPathOf(p) # Candidate(call[p].remote_url)

\* C28: a merge call never writes, renames or deletes its inputs. With an
\* output path that is neither of them, the local clip and a local file
\* named by remote_url are, at every step and after every ending, what
\* they were when the call began; whatever else the call changed lies in
\* its temporary directory or is the output file or a parent directory made
\* for it; every command but the concatenation writes into the temporary
\* directory; and the rescale writes remote_scaled.mp4, a file other than
\* the clip it reads, which stays as it was acquired.
C28_InputsUntouched ==
    \A p \in Procs :
        (call[p].pc \notin {"idle", "start"} /\ OutputApart(p)) =>
            /\ LocalPathOf(p) \in DOMAIN fs0[p] => LocalPathOf(p) \notin Changed(p)
            /\ NamedLocalFile(p) => Candidate(call[p].remote_url) \notin Changed(p)
            /\ \A q \in Changed(p) :
                  \/ call[p].tmpdir # "" /\ (q = call[p].tmpdir \/ Inside(q, call[p].tmpdir))
                  \/ q = OutputPathOf(p)
                  \/ Inside(OutputPathOf(p), q)
            /\ \A i \in DOMAIN log[p] :
                  log[p][i].dst # "" =>
                     \/ Inside(log[p][i].dst, call[p].tmpdir)
                     \/ log[p][i].cmd = "ffmpeg_concat" /\ log[p][i].dst = OutputPathOf(p)
            /\ \A i \in Entries(p, "ffmpeg_scale") :
                  /\ log[p][i].dst # log[p][i].src
                  /\ log[p][i].src = call[p].working_remote
                  /\ (InBlock(p) /\ call[p].strategy = "copy2") =>
                        fs[call[p].working_remote] = fs0[p][Candidate(call[p].remote_url)]

\* A call that copied a local remote file, rescaled the copy and wrote the
\* merged output has returned.
C28_Witness ==
    \E p \in Procs :
        /\ call[p].pc = "returned"
        /\ call[p].strategy = "copy2"
        /\ Entries(p, "ffmpeg_scale") # {}
        /\ OutputApart(p)
        /\ OutputPathOf(p) \in Changed(p)

(* ========================= robot/news_voice.py ========================= *)

NEWS_PHRASES ==
    {"latest news", "what's the latest news", "whats the latest news",
     "what is the latest news", "tell me the news"}

MIN_XAI_WORDS == 5

SILENCE_TIMEOUT_SEC == 30

NEWS_COMMAND == "play_news"
CALL_DUMMY_COMMAND == "call_dummy"

\* The clock advances TickSec seconds at a time until it reads MaxNow or more.
TickSec == 20
MaxNow == 40

\* command_queue is unbounded; at most MaxQueue commands wait in the model.
MaxQueue == 1

\* HTTP requests made, player processes started, play_news calls per thread.
MaxRequests == 1
MaxLaunches == 2
MaxPlays == 1

\* Two decimal digits.
Pad2(n) == IF n < 10 THEN "0" \o ToStr(n) ELSE ToStr(n)

\* time.strftime("%Y-%m-%d %H:%M:%S") when time.time() reads t: the service
\* starts at midnight and runs for less than an hour.
Strftime(t) == "1970-01-01 00:" \o Pad2(t \div 60) \o ":" \o Pad2(t % 60)

\* any(phrase in text.lower() for phrase in NEWS_PHRASES)
does_phrase_match(text) ==
    \E normalized \in {Lower(text)} : \E phrase \in NEWS_PHRASES : Contains(normalized, phrase)

\* len([word for word in transcription.split() if word])
RECURSIVE WordsFrom(_, _, _)
WordsFrom(text, i, inword) ==
    IF i > Len(text) THEN 0
    ELSE IF Char(text, i) = " " THEN WordsFrom(text, i + 1, FALSE)
    ELSE (IF inword THEN 0 ELSE 1) + WordsFrom(text, i + 1, TRUE)

WordCount(text) == WordsFrom(text, 1, FALSE)

\* What recognize_audio returns for what the microphone picks up; None when
\* neither recognizer understood it.
Transcriptions == {"Tell me the NEWS", "hello", "how is the weather out there"}

\* The commands a transcription puts on the queue.
Commands(transcription) ==
    IF does_phrase_match(transcription) THEN <<<<NEWS_COMMAND, transcription>>>>
    ELSE IF WordCount(transcription) >= MIN_XAI_WORDS
         THEN <<<<CALL_DUMMY_COMMAND, transcription>>>>
         ELSE << >>

\* The paths clients ask for. StatusHandler.do_GET is entered from
\* server.handle_request() alone, which run_status_server never reaches.
RequestPaths == {"/status", "/favicon.ico"}

(* ------------------------------ the clock ------------------------------ *)

Tick ==
    /\ now < MaxNow
    /\ now' = now + TickSec
    /\ UNCHANGED <<stop_event, state, command_queue, server, listener, main, caller,
                   players, player_process, player_lock, requests>>
    /\ UNCHANGED <<fs, env, call, log, fs0, ncalls, probe, gen>>

(* ------------------------- run_status_server --------------------------- *)

\* with NewsHTTPServer((host, port), StatusHandler) as server: the socket
\* is bound and listens, or the address is taken and the thread ends.
ServerOpen ==
    /\ server.pc = "init"
    /\ \/ server' = [server EXCEPT !.pc = "open", !.listening = TRUE]
       \/ server' = [server EXCEPT !.pc = "raised"]
    /\ UNCHANGED <<stop_event, state, command_queue, now, listener, main, caller,
                   players, player_process, player_lock, requests>>
    /\ UNCHANGED <<fs, env, call, log, fs0, ncalls, probe, gen>>

\* The with block holds the log line and server.timeout = 1.0 and ends:
\* __exit__ calls server_close(), and connections waiting on the socket are
\* dropped. Then last_heard_time = time.time().
ServerClose ==
    /\ server.pc = "open"
    /\ server' = [server EXCEPT !.pc = "loop", !.listening = FALSE,
                                !.last_heard_time = now]
    /\ requests' = [i \in DOMAIN requests |->
                       IF requests[i].outcome = "queued"
                       THEN [requests[i] EXCEPT !.outcome = "reset"]
                       ELSE requests[i]]
    /\ UNCHANGED <<stop_event, state, command_queue, now, listener, main, caller,
                   players, player_process, player_lock>>
    /\ UNCHANGED <<fs, env, call, log, fs0, ncalls, probe, gen>>

\* while not stop_event.is_set(): if time.time() - last_heard_time >
\* SILENCE_TIMEOUT_SEC: stop_event.set(); return. An iteration before the
\* timeout changes nothing: server.handle_request() follows the return
\* inside the if and is never reached.
ServerTimeout ==
    /\ server.pc = "loop"
    /\ ~stop_event
    /\ now - server.last_heard_time > SILENCE_TIMEOUT_SEC
    /\ stop_event' = TRUE
    /\ server' = [server EXCEPT !.pc = "done", !.stopped_at = now]
    /\ UNCHANGED <<state, command_queue, now, listener, main, caller,
                   players, player_process, player_lock, requests>>
    /\ UNCHANGED <<fs, env, call, log, fs0, ncalls, probe, gen>>

\* The loop ends because another thread set the stop event.
ServerExit ==
    /\ server.pc = "loop"
    /\ stop_event
    /\ server' = [server EXCEPT !.pc = "done"]
    /\ UNCHANGED <<stop_event, state, command_queue, now, listener, main, caller,
                   players, player_process, player_lock, requests>>
    /\ UNCHANGED <<fs, env, call, log, fs0, ncalls, probe, gen>>

\* A client sends GET path: the connection waits on the listening socket,
\* or is refused because no socket listens on the port. running records
\* whether the service ran, its server thread past the bind, at that time.
ClientGet(path) ==
    /\ main.pc # "off"
    /\ Len(requests) < MaxRequests
    /\ requests' = Append(requests,
                          [path |-> path,
                           running |-> ~stop_event /\ server.pc \in {"open", "loop"},
                           outcome |-> IF server.listening THEN "queued" ELSE "refused"])
    /\ UNCHANGED <<stop_event, state, command_queue, now, server, listener, main, caller,
                   players, player_process, player_lock>>
    /\ UNCHANGED <<fs, env, call, log, fs0, ncalls, probe, gen>>

(* --------------------------- listen_for_news --------------------------- *)

\* One iteration of the loop that hears something: a transcription sets
\* the listener's own last_heard_time, state["last_phrase"] and
\* state["last_heard"], and queues a command. (WaitTimeoutError and an
\* empty transcription go to the next iteration with nothing changed.)
Listen(transcription) ==
    /\ listener.pc = "listening"
    /\ ~stop_event
    /\ Len(command_queue) + Len(Commands(transcription)) <= MaxQueue
    /\ listener' = [listener EXCEPT !.last_heard_time = now]
    /\ state' = [state EXCEPT !.last_phrase = transcription,
                              !.last_heard = Strftime(now)]
    /\ command_queue' = command_queue \o Commands(transcription)
    /\ UNCHANGED <<stop_event, now, server, main, caller,
                   players, player_process, player_lock, requests>>
    /\ UNCHANGED <<fs, env, call, log, fs0, ncalls, probe, gen>>

\* The loop ends once the stop event is set.
ListenerExit ==
    /\ listener.pc = "listening"
    /\ stop_event
    /\ listener' = [listener EXCEPT !.pc = "done"]
    /\ UNCHANGED <<stop_event, state, command_queue, now, server, main, caller,
                   players, player_process, player_lock, requests>>
    /\ UNCHANGED <<fs, env, call, log, fs0, ncalls, probe, gen>>

(* ------------------------------ play_news ------------------------------ *)

Callers == DOMAIN caller

\* Variant: a lock that is granted to every thread that asks.
LockGrantedAlways(lock) == TRUE

\* with player_lock: the lock can be taken when no thread holds it.
LockFree(lock) == lock = NoThread

Running == {i \in DOMAIN players : players[i] = "running"}

\* play_news(video_url) is entered: with player_lock.
AcquirePlayerLock(c) ==
    /\ caller[c].pc = "play_news"
    /\ LockFree(player_lock)
    /\ player_lock' = c
    /\ caller' = [caller EXCEPT ![c].pc = "poll"]
    /\ UNCHANGED <<stop_event, state, command_queue, now, server, listener, main,
                   players, player_process, requests>>
    /\ UNCHANGED <<fs, env, call, log, fs0, ncalls, probe, gen>>

\* if player_process and player_process.poll() is None: return
PollPlayer(c) ==
    /\ caller[c].pc = "poll"
    /\ IF player_process # NoPlayer /\ players[player_process] = "running"
       THEN /\ caller' = [caller EXCEPT ![c].pc = "idle", ![c].outcome = "skipped"]
            /\ player_lock' = NoThread
       ELSE /\ caller' = [caller EXCEPT ![c].pc = "popen"]
            /\ UNCHANGED player_lock
    /\ UNCHANGED <<stop_event, state, command_queue, now, server, listener, main,
                   players, player_process, requests>>
    /\ UNCHANGED <<fs, env, call, log, fs0, ncalls, probe, gen>>

\* player_process = subprocess.Popen(command, start_new_session=True), or
\* FileNotFoundError is caught and the call returns; the lock is released.
LaunchPlayer(c) ==
    /\ caller[c].pc = "popen"
    /\ \/ /\ Len(players) < MaxLaunches
          /\ players' = Append(players, "running")
          /\ player_process' = Len(players) + 1
          /\ caller' = [caller EXCEPT ![c].pc = "stamp", ![c].outcome = "launched"]
       \/ /\ caller' = [caller EXCEPT ![c].pc = "idle", ![c].outcome = "missing"]
          /\ UNCHANGED <<players, player_process>>
    /\ player_lock' = NoThread
    /\ UNCHANGED <<stop_event, state, command_queue, now, server, listener, main, requests>>
    /\ UNCHANGED <<fs, env, call, log, fs0, ncalls, probe, gen>>

\* with state_lock: state["last_played"] = time.strftime(...)
StampPlayed(c) ==
    /\ caller[c].pc = "stamp"
    /\ state' = [state EXCEPT !.last_played = Strftime(now)]
    /\ caller' = [caller EXCEPT ![c].pc = "idle", ![c].stamped = TRUE]
    /\ UNCHANGED <<stop_event, command_queue, now, server, listener, main,
                   players, player_process, player_lock, requests>>
    /\ UNCHANGED <<fs, env, call, log, fs0, ncalls, probe, gen>>

\* A player process ends: the browser is closed or crashes.
PlayerExits(i) ==
    /\ players[i] = "running"
    /\ players' = [players EXCEPT ![i] = "exited"]
    /\ UNCHANGED <<stop_event, state, command_queue, now, server, listener, main, caller,
                   player_process, player_lock, requests>>
    /\ UNCHANGED <<fs, env, call, log, fs0, ncalls, probe, gen>>

\* A thread enters play_news.
EnterPlayNews(frames, c) ==
    [frames EXCEPT ![c] = [pc |-> "play_news", outcome |-> "", stamped |-> FALSE,
                           calls |-> @.calls + 1]]

(* -------------------------------- main --------------------------------- *)

\* command, payload = command_queue.get(timeout=0.5), then play_news for a
\* news command; handle_non_news_phrase starts a daemon thread whose work
\* (the assistant request, mpg123) touches none of the state here.
MainGet ==
    /\ main.pc = "loop"
    /\ ~stop_event
    /\ caller[1].pc = "idle"
    /\ command_queue # << >>
    /\ command_queue' = Tail(command_queue)
    /\ IF Head(command_queue)[1] = NEWS_COMMAND /\ caller[1].calls < MaxPlays
       THEN caller' = EnterPlayNews(caller, 1)
       ELSE UNCHANGED caller
    /\ UNCHANGED <<stop_event, state, now, server, listener, main,
                   players, player_process, player_lock, requests>>
    /\ UNCHANGED <<fs, env, call, log, fs0, ncalls, probe, gen>>

\* except KeyboardInterrupt: stop_event.set()
MainInterrupt ==
    /\ main.pc = "loop"
    /\ caller[1].pc = "idle"
    /\ ~stop_event
    /\ stop_event' = TRUE
    /\ main' = [main EXCEPT !.pc = "interrupted"]
    /\ UNCHANGED <<state, command_queue, now, server, listener, caller,
                   players, player_process, player_lock, requests>>
    /\ UNCHANGED <<fs, env, call, log, fs0, ncalls, probe, gen>>

\* while not stop_event.is_set() ends; the threads are joined.
MainExit ==
    /\ main.pc = "loop"
    /\ caller[1].pc = "idle"
    /\ stop_event
    /\ main' = [main EXCEPT !.pc = "done"]
    /\ UNCHANGED <<stop_event, state, command_queue, now, server, listener, caller,
                   players, player_process, player_lock, requests>>
    /\ UNCHANGED <<fs, env, call, log, fs0, ncalls, probe, gen>>

\* main() has started the listener and the status-server thread; the
\* microphone is calibrated.
InitVoice ==
    /\ fs = [d \in BaseDirs |-> Dir]
    /\ env = [ffmpeg |-> "ok", ffprobe |-> TRUE, yt_dlp |-> TRUE, served |-> RemoteMedia]
    /\ call = [p \in {1} |-> IdleCall]
    /\ log = [p \in {1} |-> << >>]
    /\ fs0 = [p \in {1} |-> fs]
    /\ ncalls = 0
    /\ probe = IdleProbe
    /\ gen = IdleGen
    /\ stop_event = FALSE
    /\ state = InitialState
    /\ command_queue = << >>
    /\ now = 0
    /\ server = [pc |-> "init", listening |-> FALSE, last_heard_time |-> NoTime,
                 stopped_at |-> NoTime]
    /\ listener = [pc |-> "listening", last_heard_time |-> NoTime]
    /\ main = [pc |-> "loop"]
    /\ caller = [c \in {1} |-> IdleCaller]
    /\ players = << >>
    /\ player_process = NoPlayer
    /\ player_lock = NoThread
    /\ requests = << >>

NextVoice ==
    \/ Tick
    \/ ServerOpen
    \/ ServerClose
    \/ ServerTimeout
    \/ ServerExit
    \/ \E path \in RequestPaths : ClientGet(path)
    \/ \E transcription \in Transcriptions : Listen(transcription)
    \/ ListenerExit
    \/ MainGet
    \/ MainInterrupt
    \/ MainExit
    \/ \E c \in Callers : AcquirePlayerLock(c)
    \/ \E c \in Callers : PollPlayer(c)
    \/ \E c \in Callers : LaunchPlayer(c)
    \/ \E c \in Callers : StampPlayed(c)
    \/ \E i \in DOMAIN players : PlayerExits(i)

SpecVoice == InitVoice /\ [][NextVoice]_vars

(* ----------------------- status server: C21, C22 ----------------------- *)

\* The service runs and its status-server thread has bound the port.
ServiceUp == ~stop_event /\ server.pc \in {"open", "loop"}

\* C21: while the service runs, stop event not set, the status server
\* stays open, and no GET made in that time is turned away: none is refused
\* for want of a listening socket and none is dropped unanswered.
C21_StatusServed ==
    /\ ServiceUp => server.listening
    /\ \A i \in DOMAIN requests :
          requests[i].running => requests[i].outcome \notin {"refused", "reset"}

\* When speech was last heard: the listener's last_heard_time, or the
\* start of the service when nothing was heard yet.
LastSpeech == IF listener.last_heard_time = NoTime THEN 0 ELSE listener.last_heard_time

\* C22: the stop event is set by the silence timeout only when no speech
\* was heard for SILENCE_TIMEOUT_SEC seconds: at the time the status-server
\* thread sets it, the last transcription is more than SILENCE_TIMEOUT_SEC
\* seconds old.
C22_StopsOnlyAfterSilence ==
    server.stopped_at # NoTime => server.stopped_at - LastSpeech > SILENCE_TIMEOUT_SEC

(* ------------------- play_news from several threads -------------------- *)

\* Some thread calls play_news(video_url).
PlayNewsCall(c) ==
    /\ caller[c].pc = "idle"
    /\ caller[c].calls < MaxPlays
    /\ caller' = EnterPlayNews(caller, c)
    /\ UNCHANGED <<stop_event, state, command_queue, now, server, listener, main,
                   players, player_process, player_lock, requests>>
    /\ UNCHANGED <<fs, env, call, log, fs0, ncalls, probe, gen>>

\* Two threads that may call play_news at any time; no player was started.
InitPlayer ==
    /\ fs = [d \in BaseDirs |-> Dir]
    /\ env = [ffmpeg |-> "ok", ffprobe |-> TRUE, yt_dlp |-> TRUE, served |-> RemoteMedia]
    /\ call = [p \in {1} |-> IdleCall]
    /\ log = [p \in {1} |-> << >>]
    /\ fs0 = [p \in {1} |-> fs]
    /\ ncalls = 0
    /\ probe = IdleProbe
    /\ gen = IdleGen
    /\ stop_event = FALSE
    /\ state = InitialState
    /\ command_queue = << >>
    /\ now = 0
    /\ server = [pc |-> "off", listening |-> FALSE, last_heard_time |-> NoTime,
                 stopped_at |-> NoTime]
    /\ listener = [pc |-> "off", last_heard_time |-> NoTime]
    /\ main = [pc |-> "off"]
    /\ caller = [c \in {1, 2} |-> IdleCaller]
    /\ players = << >>
    /\ player_process = NoPlayer
    /\ player_lock = NoThread
    /\ requests = << >>

NextPlayer ==
    \/ Tick
    \/ \E c \in Callers : PlayNewsCall(c)
    \/ \E c \in Callers : AcquirePlayerLock(c)
    \/ \E c \in Callers : PollPlayer(c)
    \/ \E c \in Callers : LaunchPlayer(c)
    \/ \E c \in Callers : StampPlayed(c)
    \/ \E i \in DOMAIN players : PlayerExits(i)

SpecPlayer == InitPlayer /\ [][NextPlayer]_vars

(* ----------------------------- player: C29 ----------------------------- *)

\* At most one player runs, and only a call that started a player has
\* written state["last_played"].
OnePlayer ==
    /\ Cardinality(Running) <= 1
    /\ \A c \in Callers : caller[c].stamped => caller[c].outcome = "launched"
    /\ state.last_played # None => players # << >>

\* A player is started only when none runs, and state["last_played"]
\* changes only in the step of a call that started one.
LaunchesWhenNoneRuns ==
    /\ Len(players') > Len(players) => Running = {}
    /\ state'.last_played # state.last_played =>
          \E c \in Callers : caller[c].pc = "stamp" /\ caller[c].outcome = "launched"
                             /\ caller'[c].pc = "idle"

\* C29: at most one player process started by play_news runs at any time,
\* whatever the interleaving of the calling threads: a call made while the
\* previous player still runs starts nothing, and state["last_played"] is
\* written only by a call that started a player, not by a skipped call and
\* not by one that found no browser.
C29_OnePlayerAtATime == []OnePlayer /\ [][LaunchesWhenNoneRuns]_vars

\* One thread started a player and stamped last_played; the other called
\* while that player ran and was skipped.
C29_Witness ==
    \E c \in Callers, d \in Callers :
        /\ c # d
        /\ caller[c].outcome = "launched" /\ caller[c].stamped
        /\ caller[d].outcome = "skipped" /\ ~caller[d].stamped
        /\ Running # {}
        /\ state.last_played # None

(* ========================= sadtalker_client.py ========================= *)

\* A regular file last written at time mtime.
File(mtime) == [kind |-> "file", mtime |-> mtime]

IsFile(files, q) == q \in DOMAIN files /\ files[q].kind # "dir"

\* Path(repo_path or SAD_TALKER_PATH).expanduser().resolve(), with the
\* default SAD_TALKER_PATH "SadTalker" and no repo_path argument.
RepoPath == Resolve(ExpandUser(PathOf("SadTalker")))

InferenceScript == RepoPath \o "/inference.py"

\* Path(result_dir or repo_path / "results"), no result_dir argument.
WorkingResultDir == RepoPath \o "/results"

ReferenceImage == "/home/u/face.png"

\* The name tempfile.NamedTemporaryFile(suffix=".wav", delete=False) picks.
TmpWav == "/tmp/tmpq3.wav"

\* dir.rglob("*.mp4"): every .mp4 below dir, at any depth.
RGlobMp4(files, dir) == {q \in DOMAIN files : Inside(q, dir) /\ EndsWith(q, ".mp4")}

\* dir.glob("*.mp4"): the .mp4 entries of dir itself.
GlobMp4(files, dir) == {q \in DOMAIN files : Parent(q) = dir /\ EndsWith(q, ".mp4")}

\* Variant: the temporary audio is removed only when the call returns.
FinallyIfReturned(files, g, e) ==
    IF e = NoExc /\ g.cleanup_audio /\ g.temp_audio_file # None
                 /\ g.temp_audio_file \in DOMAIN files
    THEN Remove(files, g.audio_file)
    ELSE files

\* finally: if cleanup_audio and temp_audio_file and
\* temp_audio_file.exists(): audio_file.unlink(missing_ok=True)
Finally(files, g, e) ==
    IF g.cleanup_audio /\ g.temp_audio_file # None /\ g.temp_audio_file \in DOMAIN files
    THEN Remove(files, g.audio_file)
    ELSE files

\* An exception raised before the try statement.
GenRaise(e) ==
    /\ gen' = [gen EXCEPT !.pc = "raised", !.exc = e]
    /\ UNCHANGED fs

\* The try statement is left with exception e, or by return when e is
\* NoExc, the file system being files: the finally clause runs.
GenLeaveTry(e, video_path, files) ==
    /\ gen' = [gen EXCEPT !.pc = IF e = NoExc THEN "returned" ELSE "raised",
                          !.exc = e, !.video_path = video_path]
    /\ fs' = Finally(files, gen, e)

\* Lines 77-99: the repository and the reference image are checked, the
\* result directory is made and the videos already there are noted.
\* (ref_pose and ref_eyeblink are left None.)
GenValidate ==
    /\ gen.pc = "start"
    /\ IF InferenceScript \notin DOMAIN fs
       THEN GenRaise(Exc("SadTalkerError", "SadTalker repo missing"))
       ELSE IF ~IsFile(fs, ReferenceImage)
       THEN GenRaise(Exc("SadTalkerError", "Provided reference image does not exist"))
       ELSE LET made == MissingDirs(fs, WorkingResultDir)
                files == [q \in DOMAIN fs \cup made |-> IF q \in made THEN Dir ELSE fs[q]]
            IN  /\ fs' = files
                /\ gen' = [gen EXCEPT !.pc = "audio",
                                      !.before_videos = RGlobMp4(files, WorkingResultDir),
                                      !.parent_before = RGlobMp4(files, Parent(WorkingResultDir))]
    /\ UNCHANGED <<env, call, log, fs0, ncalls, probe, voice_vars>>

\* Lines 101-112: the caller's driving audio is checked and cleanup_audio
\* is switched off, or an empty temporary .wav is made.
GenAudio ==
    /\ gen.pc = "audio"
    /\ IF gen.driven_audio # None
       THEN LET audio_file == Resolve(ExpandUser(PathOf(gen.driven_audio)))
            IN  IF ~IsFile(fs, audio_file)
                THEN GenRaise(Exc("SadTalkerError", "Driving audio does not exist"))
                ELSE /\ gen' = [gen EXCEPT !.pc = "try", !.audio_file = audio_file,
                                           !.cleanup_audio = FALSE]
                     /\ UNCHANGED fs
       ELSE /\ fs' = Put(fs, TmpWav, File(0))
            /\ gen' = [gen EXCEPT !.pc = "try", !.audio_file = TmpWav,
                                  !.temp_audio_file = TmpWav]
    /\ UNCHANGED <<env, call, log, fs0, ncalls, probe, voice_vars>>

\* Lines 114-118: an empty prompt is refused; without driving audio the
\* prompt is spoken into audio_file, unless pyttsx3 is missing or its
\* engine fails, before or after it began to write.
GenSynthesize ==
    /\ gen.pc = "try"
    /\ IF Strip(gen.prompt) = ""
       THEN GenLeaveTry(Exc("SadTalkerError", "Prompt cannot be empty."), "", fs)
       ELSE IF gen.driven_audio # None
       THEN /\ gen' = [gen EXCEPT !.pc = "run"]
            /\ UNCHANGED fs
       ELSE \/ /\ gen' = [gen EXCEPT !.pc = "run"]
               /\ fs' = Put(fs, gen.audio_file, File(1))
            \/ GenLeaveTry(Exc("SadTalkerError", "pyttsx3 is required"), "", fs)
            \/ GenLeaveTry(Exc("RuntimeError", "pyttsx3 engine failed"), "",
                           Put(fs, gen.audio_file, File(1)))
    /\ UNCHANGED <<env, call, log, fs0, ncalls, probe, voice_vars>>

\* The videos inference.py may leave: none, one in the result directory,
\* one beside it.
Produced == {"", WorkingResultDir \o "/out.mp4", RepoPath \o "/out.mp4"}

\* Lines 120-182: the command is built, the device is checked and the
\* inference runs; a non-zero exit becomes SadTalkerError.
GenRun ==
    /\ gen.pc = "run"
    /\ \E device_choice \in {Lower(gen.device)} :
          IF device_choice # "cpu" /\ device_choice \notin {"cuda", "gpu"}
          THEN GenLeaveTry(Exc("SadTalkerError", "`device` must be 'cpu', 'cuda', or 'gpu'."), "", fs)
          ELSE \/ GenLeaveTry(Exc("SadTalkerError", "SadTalker inference failed"), "", fs)
               \/ \E q \in Produced :
                     /\ fs' = IF q = "" THEN fs ELSE Put(fs, q, File(2))
                     /\ gen' = [gen EXCEPT !.pc = "collect"]
    /\ UNCHANGED <<env, call, log, fs0, ncalls, probe, voice_vars>>

\* working_result_dir.rglob("*.mp4") and parent.rglob("*.mp4") that were
\* not there before; when there are none, what glob finds in the result
\* directory and what is new beside it.
Candidates(files, g) ==
    LET new == (RGlobMp4(files, WorkingResultDir) \ g.before_videos)
               \cup (RGlobMp4(files, Parent(WorkingResultDir)) \ g.parent_before)
    IN  IF new # {} THEN new
        ELSE GlobMp4(files, WorkingResultDir)
             \cup (GlobMp4(files, Parent(WorkingResultDir)) \ g.parent_before)

\* Lines 184-204: the latest candidate by st_mtime is returned, or
\* SadTalkerError when there is none.
GenCollect ==
    /\ gen.pc = "collect"
    /\ LET candidates == Candidates(fs, gen)
       IN  IF candidates = {}
           THEN GenLeaveTry(Exc("SadTalkerError", "SadTalker did not produce any mp4 videos."), "", fs)
           ELSE \E latest_video \in candidates :
                   /\ \A q \in candidates : fs[q].mtime <= fs[latest_video].mtime
                   /\ GenLeaveTry(NoExc, latest_video, fs)
    /\ UNCHANGED <<env, call, log, fs0, ncalls, probe, voice_vars>>

Prompts == {"", "  ", "hello"}
DrivenAudios == {None, "~/voice.wav", "/home/u/gone.wav"}
Devices == {"cpu", "CUDA", "tpu"}

\* What the call finds on disk: the repository with or without its
\* inference script, the reference image or none, an earlier video or not.
SadFiles ==
    LET base == [q \in BaseDirs \cup {RepoPath, "/home/u/voice.wav"} |->
                    IF q = "/home/u/voice.wav" THEN File(0) ELSE Dir]
        full == Put(Put(base, InferenceScript, File(0)), ReferenceImage, File(0))
    IN  {Put(base, ReferenceImage, File(0)),
         Put(base, InferenceScript, File(0)),
         full,
         Put(Put(full, WorkingResultDir, Dir), WorkingResultDir \o "/old.mp4", File(0))}

\* generate_video_from_prompt(prompt, reference_image, cleanup_audio=...,
\* device=..., driven_audio=...) is called.
InitSad ==
    /\ fs \in SadFiles
    /\ env = [ffmpeg |-> "ok", ffprobe |-> TRUE, yt_dlp |-> TRUE, served |-> RemoteMedia]
    /\ call = [p \in {1} |-> IdleCall]
    /\ log = [p \in {1} |-> << >>]
    /\ fs0 = [p \in {1} |-> fs]
    /\ ncalls = 0
    /\ probe = IdleProbe
    /\ VoiceOff
    /\ \E prompt \in Prompts, driven_audio \in DrivenAudios,
          cleanup_audio \in BOOLEAN, device \in Devices :
          gen = [pc |-> "start", prompt |-> prompt, driven_audio |-> driven_audio,
                 cleanup_arg |-> cleanup_audio, cleanup_audio |-> cleanup_audio,
                 device |-> device, audio_file |-> None, temp_audio_file |-> None,
                 before_videos |-> {}, parent_before |-> {},
                 exc |-> NoExc, video_path |-> ""]

NextSad ==
    \/ GenValidate
    \/ GenAudio
    \/ GenSynthesize
    \/ GenRun
    \/ GenCollect

SpecSad == InitSad /\ [][NextSad]_vars

(* -------------------------- driving audio: C30 ------------------------- *)

GenEnded == gen.pc \in {"returned", "raised"}

\* The call made a temporary .wav and was not told to keep it.
MadeTmpAudio == gen.temp_audio_file # None /\ gen.cleanup_arg

\* C30: once generate_video_from_prompt has ended, by return or by any
\* exception, the temporary .wav it made for want of driven_audio (with
\* cleanup_audio left true) does not exist; and a driven_audio file of the
\* caller's exists with its content unchanged at every step of the call.
C30_TmpAudioRemoved ==
    /\ (GenEnded /\ MadeTmpAudio) => gen.temp_audio_file \notin DOMAIN fs
    /\ \A p \in Procs :
          (gen.pc # "off" /\ gen.driven_audio # None) =>
             \A q \in {Resolve(ExpandUser(PathOf(gen.driven_audio)))} :
                q \in DOMAIN fs0[p] => (q \in DOMAIN fs /\ fs[q] = fs0[p][q])

\* The inference failed after the prompt was spoken into the temporary
\* .wav, and the call has ended.
C30_Witness ==
    /\ gen.pc = "raised"
    /\ gen.exc = Exc("SadTalkerError", "SadTalker inference failed")
    /\ MadeTmpAudio
    /\ gen.audio_file = TmpWav

====
